---- MODULE Spec2Model ----
(***************************************************************************)
(* Retrieval-Unlimited-Memory (RUM): the SQLite store (RumDatabase), the   *)
(* memory service (store / updateMemory / link / deleteMemory / trace),    *)
(* the chapter and synthesis services, and the trigger service.            *)
(*                                                                         *)
(* Specifications:                                                         *)
(*   Spec           the store and the services that write to it            *)
(*   LinkSpec       the memory service with every link type                *)
(*   TraceSpec      MemoryService.trace over link graphs built by link()   *)
(*   TraceFairSpec  TraceSpec, a started trace running to its end          *)
(*   TriggerSpec    TriggerService over a fixed store and a moving clock   *)
(*   ConflictSpec   checkConflict next to checkFileTouch                   *)
(*   RecallSpec     MemoryService.recall over a fixed store                *)
(*   EmbedSpec      store, updateMemory, recall and embed against a        *)
(*                  backend that can fail                                  *)
(*   IdentitySpec   IdentityService next to the memory service             *)
(*   UpdateSpec     updateMemory with patches of every layer               *)
(*   PatchLinkSpec  updateMemory with patches of links                     *)
(*   SynthesisSpec  createChapter and synthesize over tagged memories      *)
(*   DeleteSpec     chapters and wisdom created and deleted                *)
(*   AwaitSpec      store and updateMemory calls suspended at their await  *)
(*   ChapterSpec    createChapter from id lists and by auto-detection      *)
(***************************************************************************)
EXTENDS Integers, Sequences, FiniteSets, Bags, TLC

\* ------------------------------------------------------------------ bounds
MaxMem == 2        \* memories ever stored in one run of Spec
MaxLinks == 2      \* rows of memory_links in Spec
MaxChapters == 1   \* chapters ever created
MaxWisdom == 1     \* wisdom rows ever created
MaxAgents == 1     \* agents ever registered

\* ------------------------------------------------------------- identifiers
\* uuid-based ids are modelled by counters: an id is never issued twice.
NULL == 0
None == ""          \* an absent text, or "" (both falsy)
NoEmbedding == <<>> \* no embedding: null / undefined
MemIds == 1..MaxMem
NoMem == MaxMem + 1            \* an id string that names no memory, ever
MemRefs == MemIds \cup {NoMem} \* what a caller can pass as a memory id
AgentIds == 1..MaxAgents
ChapterIds == 1..MaxChapters
NoChapter == MaxChapters + 1
ChapterRefs == ChapterIds \cup {NoChapter}
WisdomIds == 1..MaxWisdom

LinkTypes == {"caused_by", "led_to", "related_to", "supersedes", "blocked_by"}

\* file paths are character sequences (LIKE matches substrings)
PathA == <<"a">>
PathAB == <<"a", "b">>
PathB == <<"b">>

EmptyFcn == [x \in {} |-> x]

\* the current agent and session of the identity service
Identity(agentId, sessionId) == [agentId |-> agentId, sessionId |-> sessionId]
NoIdentity == Identity(NULL, NULL)

VARIABLES
  db,                \* RumDatabase: one record field per table
  ids,               \* next fresh id per id kind (uuidv4)
  currentAgentId,    \* MemoryService.currentAgentId
  currentSessionId,  \* MemoryService.currentSessionId
  identity,          \* IdentityService: its own currentAgentId and currentSessionId
  now,               \* Date.now()
  last,              \* the last call and how it ended
  tr,                \* the trace call in progress: its locals and call stack
  config,            \* TriggerService.config
  cooldowns,         \* TriggerService.cooldowns: trigger key -> time of last trigger
  notificationCount, \* TriggerService.notificationCount: minute -> count
  emitted,           \* the notifications checkFileTouch returned: when, for which file
  enabled,           \* EmbeddingService.enabled
  embedCall,         \* the embed call of the last operation, if it made one
  awaiting           \* the store and updateMemory calls suspended at `await embed`

trigVars == <<config, cooldowns, notificationCount, emitted>>

embVars == <<enabled, embedCall, awaiting>>

vars == <<db, ids, currentAgentId, currentSessionId, identity, now, last, tr, config,
          cooldowns, notificationCount, emitted, enabled, embedCall, awaiting>>

\* --------------------------------------------------------------- the store
\* SCHEMA: tables of one project database.  memory_links is a bag of
\* (source_id, target_id, link_type) rows, so that a second row for one
\* triple is representable; the other relations are sets of rows.
EmptyDb ==
  [ agents |-> EmptyFcn,
    sessions |-> EmptyFcn,
    memories |-> EmptyFcn,
    memory_files |-> {},
    memory_links |-> EmptyBag,
    chapters |-> EmptyFcn,
    chapter_memories |-> {},
    wisdom |-> EmptyFcn,
    wisdom_chapters |-> {} ]

\* what the caller of the last operation saw: the operation, whether it
\* raised, the boolean it returned, and (for bookkeeping) which kinds of rows
\* its argument owned when the call began
Last(op, threw, ret, had) ==
  [op |-> op, threw |-> threw, ret |-> ret, had |-> had]

\* a statement either completes or raises (better-sqlite3 throws)
Ok(d) == [db |-> d, ok |-> TRUE]
Throw(d) == [db |-> d, ok |-> FALSE]

Without(f, k) == [x \in (DOMAIN f) \ {k} |-> f[x]]

LinkRow(s, t, ty) == [source_id |-> s, target_id |-> t, link_type |-> ty]

\* rows of a bag, each once
LinkRows(d) == BagToSet(d.memory_links)

\* number of rows in memory_links
LinkCount(d) == BagCardinality(d.memory_links)

\* INSERT INTO agents; parent_id REFERENCES agents(id)
db_createAgent(d, id, type, parentId, t) ==
  IF id \in DOMAIN d.agents THEN Throw(d)
  ELSE IF parentId # NULL /\ parentId \notin DOMAIN d.agents THEN Throw(d)
  ELSE Ok([d EXCEPT !.agents = (id :> [type |-> type, parent_id |-> parentId,
                                       created_at |-> t, last_active_at |-> t,
                                       session_count |-> 1, memory_count |-> 0,
                                       success_count |-> 0, failure_count |-> 0]) @@ @])

\* INSERT INTO sessions; agent_id REFERENCES agents(id)
db_createSession(d, id, agentId, t) ==
  IF id \in DOMAIN d.sessions \/ agentId \notin DOMAIN d.agents THEN Throw(d)
  ELSE Ok([d EXCEPT !.sessions = (id :> [agent_id |-> agentId, started_at |-> t,
                                         ended_at |-> NULL, final_outcome |-> None,
                                         memories_created |-> 0,
                                         queries_made |-> 0]) @@ @])

\* UPDATE agents SET memory_count = memory_count + 1, ... WHERE id = ?
db_incrementAgentMemoryCount(d, agentId, success) ==
  IF agentId \notin DOMAIN d.agents THEN d
  ELSE [d EXCEPT !.agents[agentId].memory_count = @ + 1,
                 !.agents[agentId].success_count = @ + (IF success THEN 1 ELSE 0),
                 !.agents[agentId].failure_count = @ + (IF success THEN 0 ELSE 1)]

\* UPDATE sessions SET memories_created = memories_created + 1 WHERE id = ?
db_incrementSessionMemories(d, sessionId) ==
  IF sessionId \notin DOMAIN d.sessions THEN d
  ELSE [d EXCEPT !.sessions[sessionId].memories_created = @ + 1]

\* importance is a number of thousandths; params.importance || 0.5
DefaultImportance == 500

\* INSERT INTO memories; agent_id REFERENCES agents(id).  The columns
\* intent_goal, intent_type, outcome_success and outcome_summary stand next to
\* the JSON of the layers (intent, outcome); reasoning holds approach_chosen
\* and relevant_files the paths of perception.relevant_files
db_createMemory(d, id, agentId, sessionId, p, embedding, t) ==
  IF id \in DOMAIN d.memories \/ agentId \notin DOMAIN d.agents THEN Throw(d)
  ELSE Ok([d EXCEPT !.memories =
             (id :> [agent_id |-> agentId, session_id |-> sessionId, created_at |-> t,
                     intent_goal |-> p.goal, intent_type |-> p.task_type,
                     outcome_success |-> p.success, outcome_summary |-> p.summary,
                     intent |-> [goal |-> p.goal, task_type |-> p.task_type],
                     outcome |-> [success |-> p.success, summary |-> p.summary,
                                  learnings |-> p.learnings],
                     reasoning |-> p.reasoning,
                     actions |-> p.actions,
                     relevant_files |-> p.relevant_files,
                     tags |-> p.tags,
                     importance |-> IF p.importance # 0 THEN p.importance
                                    ELSE DefaultImportance,
                     embedding |-> embedding,
                     access_count |-> 0]) @@ @])

\* SELECT * FROM memories WHERE id = ?   (the row exists)
db_hasMemory(d, id) == id \in DOMAIN d.memories

\* INSERT OR IGNORE INTO memory_files; PRIMARY KEY (memory_id, file_path),
\* memory_id REFERENCES memories(id): OR IGNORE does not cover foreign keys
db_addMemoryFile(d, memoryId, filePath, operation) ==
  IF \E r \in d.memory_files : r.memory_id = memoryId /\ r.file_path = filePath
    THEN Ok(d)
  ELSE IF memoryId \notin DOMAIN d.memories THEN Throw(d)
  ELSE Ok([d EXCEPT !.memory_files = @ \cup
             {[memory_id |-> memoryId, file_path |-> filePath, operation |-> operation]}])

\* createLink on a connection that never ran PRAGMA foreign_keys = ON
db_createLink_noForeignKeys(d, sourceId, targetId, linkType) ==
  IF BagIn(LinkRow(sourceId, targetId, linkType), d.memory_links) THEN Ok(d)
  ELSE Ok([d EXCEPT !.memory_links = @ (+) SetToBag({LinkRow(sourceId, targetId, linkType)})])

\* createLink on a memory_links table declared without its UNIQUE constraint
db_createLink_noUnique(d, sourceId, targetId, linkType) ==
  IF sourceId \notin DOMAIN d.memories \/ targetId \notin DOMAIN d.memories
    THEN Throw(d)
  ELSE Ok([d EXCEPT !.memory_links = @ (+) SetToBag({LinkRow(sourceId, targetId, linkType)})])

\* INSERT OR IGNORE INTO memory_links; UNIQUE(source_id, target_id, link_type),
\* source_id and target_id REFERENCES memories(id)
db_createLink(d, sourceId, targetId, linkType) ==
  IF BagIn(LinkRow(sourceId, targetId, linkType), d.memory_links) THEN Ok(d)
  ELSE IF sourceId \notin DOMAIN d.memories \/ targetId \notin DOMAIN d.memories
    THEN Throw(d)
  ELSE Ok([d EXCEPT !.memory_links = @ (+) SetToBag({LinkRow(sourceId, targetId, linkType)})])

\* SELECT target_id, link_type FROM memory_links WHERE source_id = ?
\* (one entry per row: a bag)
db_getLinksFrom(d, memoryId) ==
  LET rows == {r \in LinkRows(d) : r.source_id = memoryId}
  IN [r \in rows |-> CopiesIn(r, d.memory_links)]

\* SELECT source_id, link_type FROM memory_links WHERE target_id = ?
db_getLinksTo(d, memoryId) ==
  LET rows == {r \in LinkRows(d) : r.target_id = memoryId}
  IN [r \in rows |-> CopiesIn(r, d.memory_links)]

\* deleteMemoryLinksByType that deletes the memory's links of every type
db_deleteMemoryLinksByType_anyType(d, memoryId, linkType) ==
  LET keep == {r \in LinkRows(d) : r.source_id # memoryId}
  IN [d EXCEPT !.memory_links = [r \in keep |-> CopiesIn(r, d.memory_links)]]

\* DELETE FROM memory_links WHERE source_id = ? AND link_type = ?
db_deleteMemoryLinksByType(d, memoryId, linkType) ==
  LET keep == {r \in LinkRows(d) : ~(r.source_id = memoryId /\ r.link_type = linkType)}
  IN [d EXCEPT !.memory_links = [r \in keep |-> CopiesIn(r, d.memory_links)]]

\* DELETE FROM memories WHERE id = ?: the row goes, and with foreign_keys = ON
\* every row that REFERENCES memories(id) ON DELETE CASCADE goes with it
sql_deleteMemoryRow(d, memoryId) ==
  IF memoryId \notin DOMAIN d.memories THEN d
  ELSE LET keep == {r \in LinkRows(d) : r.source_id # memoryId /\ r.target_id # memoryId}
       IN [d EXCEPT !.memories = Without(@, memoryId),
                    !.memory_files = {r \in @ : r.memory_id # memoryId},
                    !.memory_links = [r \in keep |-> CopiesIn(r, d.memory_links)],
                    !.chapter_memories = {r \in @ : r.memory_id # memoryId}]

\* deleteMemory whose first statement lost its WHERE clause
db_deleteMemory_noWhere(d, memoryId) ==
  LET d1 == [d EXCEPT !.memory_files = {}]
      keep == {r \in LinkRows(d1) : ~(r.source_id = memoryId \/ r.target_id = memoryId)}
      d2 == [d1 EXCEPT !.memory_links = [r \in keep |-> CopiesIn(r, d1.memory_links)]]
      d3 == [d2 EXCEPT !.chapter_memories = {r \in @ : r.memory_id # memoryId}]
  IN [db |-> sql_deleteMemoryRow(d3, memoryId),
      deleted |-> memoryId \in DOMAIN d3.memories]

\* RumDatabase.deleteMemory: one transaction of four DELETE statements
db_deleteMemory(d, memoryId) ==
  LET d1 == [d EXCEPT !.memory_files = {r \in @ : r.memory_id # memoryId}]
      keep == {r \in LinkRows(d1) : ~(r.source_id = memoryId \/ r.target_id = memoryId)}
      d2 == [d1 EXCEPT !.memory_links = [r \in keep |-> CopiesIn(r, d1.memory_links)]]
      d3 == [d2 EXCEPT !.chapter_memories = {r \in @ : r.memory_id # memoryId}]
  IN [db |-> sql_deleteMemoryRow(d3, memoryId),
      deleted |-> memoryId \in DOMAIN d3.memories]

\* RumDatabase.replaceMemoryFiles: DELETE the memory's rows, then INSERT OR
\* IGNORE each file in order (first row for a path wins); one transaction,
\* rolled back as a whole when an insert raises
RECURSIVE insertFiles(_, _, _)
insertFiles(d, memoryId, files) ==
  IF files = <<>> THEN Ok(d)
  ELSE LET r == db_addMemoryFile(d, memoryId, Head(files).path, Head(files).operation)
       IN IF r.ok THEN insertFiles(r.db, memoryId, Tail(files)) ELSE r

\* replaceMemoryFiles without its DELETE: the new rows join the old ones
db_replaceMemoryFiles_keepsOld(d, memoryId, files) ==
  LET r == insertFiles(d, memoryId, files)
  IN IF r.ok THEN r ELSE Throw(d)

db_replaceMemoryFiles(d, memoryId, files) ==
  LET d1 == [d EXCEPT !.memory_files = {r \in @ : r.memory_id # memoryId}]
      r == insertFiles(d1, memoryId, files)
  IN IF r.ok THEN r ELSE Throw(d)

\* INSERT INTO chapters
db_createChapter(d, id, row) ==
  IF id \in DOMAIN d.chapters THEN Throw(d)
  ELSE Ok([d EXCEPT !.chapters = (id :> row) @@ @])

\* INSERT OR IGNORE INTO chapter_memories; PRIMARY KEY (chapter_id, memory_id),
\* both columns are foreign keys
db_addChapterMemory(d, chapterId, memoryId, position) ==
  IF \E r \in d.chapter_memories : r.chapter_id = chapterId /\ r.memory_id = memoryId
    THEN Ok(d)
  ELSE IF chapterId \notin DOMAIN d.chapters \/ memoryId \notin DOMAIN d.memories
    THEN Throw(d)
  ELSE Ok([d EXCEPT !.chapter_memories = @ \cup
             {[chapter_id |-> chapterId, memory_id |-> memoryId, position |-> position]}])

\* DELETE FROM chapters WHERE id = ? with its ON DELETE CASCADE children
sql_deleteChapterRow(d, chapterId) ==
  IF chapterId \notin DOMAIN d.chapters THEN d
  ELSE [d EXCEPT !.chapters = Without(@, chapterId),
                 !.chapter_memories = {r \in @ : r.chapter_id # chapterId},
                 !.wisdom_chapters = {r \in @ : r.chapter_id # chapterId}]

\* deleteChapter that also deletes the wisdom rows that refer to the chapter
db_deleteChapter_dropsWisdom(d, chapterId) ==
  LET referring == {r.wisdom_id : r \in {x \in d.wisdom_chapters : x.chapter_id = chapterId}}
      d1 == [d EXCEPT !.chapter_memories = {r \in @ : r.chapter_id # chapterId}]
      d2 == [d1 EXCEPT !.wisdom_chapters = {r \in @ : r.wisdom_id \notin referring},
                       !.wisdom = [w \in DOMAIN @ \ referring |-> @[w]]]
  IN [db |-> sql_deleteChapterRow(d2, chapterId),
      deleted |-> chapterId \in DOMAIN d2.chapters]

\* RumDatabase.deleteChapter: one transaction of three DELETE statements
db_deleteChapter(d, chapterId) ==
  LET d1 == [d EXCEPT !.chapter_memories = {r \in @ : r.chapter_id # chapterId}]
      d2 == [d1 EXCEPT !.wisdom_chapters = {r \in @ : r.chapter_id # chapterId}]
  IN [db |-> sql_deleteChapterRow(d2, chapterId),
      deleted |-> chapterId \in DOMAIN d2.chapters]

\* SELECT ... FROM chapters WHERE id IN (...): each existing chapter once
db_getChaptersByIds(d, chapterIds) ==
  {chapterIds[i] : i \in DOMAIN chapterIds} \cap DOMAIN d.chapters

\* INSERT INTO wisdom
db_createWisdom(d, id, row) ==
  IF id \in DOMAIN d.wisdom THEN Throw(d)
  ELSE Ok([d EXCEPT !.wisdom = (id :> row) @@ @])

\* INSERT OR IGNORE INTO wisdom_chapters; PRIMARY KEY (wisdom_id, chapter_id),
\* both columns are foreign keys
db_addWisdomChapter(d, wisdomId, chapterId) ==
  IF [wisdom_id |-> wisdomId, chapter_id |-> chapterId] \in d.wisdom_chapters THEN Ok(d)
  ELSE IF wisdomId \notin DOMAIN d.wisdom \/ chapterId \notin DOMAIN d.chapters
    THEN Throw(d)
  ELSE Ok([d EXCEPT !.wisdom_chapters = @ \cup
             {[wisdom_id |-> wisdomId, chapter_id |-> chapterId]}])

\* deleteWisdom that deletes the references of every wisdom
db_deleteWisdom_allReferences(d, wisdomId) ==
  LET d1 == [d EXCEPT !.wisdom_chapters = {}]
  IN [db |-> IF wisdomId \in DOMAIN d1.wisdom
               THEN [d1 EXCEPT !.wisdom = Without(@, wisdomId)]
               ELSE d1,
      deleted |-> wisdomId \in DOMAIN d1.wisdom]

\* RumDatabase.deleteWisdom: one transaction of two DELETE statements (the
\* second cascades to wisdom_chapters)
db_deleteWisdom(d, wisdomId) ==
  LET d1 == [d EXCEPT !.wisdom_chapters = {r \in @ : r.wisdom_id # wisdomId}]
  IN [db |-> IF wisdomId \in DOMAIN d1.wisdom
               THEN [d1 EXCEPT !.wisdom = Without(@, wisdomId)]
               ELSE d1,
      deleted |-> wisdomId \in DOMAIN d1.wisdom]

\* updateMemory that leaves outcome_summary as it was
db_updateMemory_staleSummary(d, memoryId, updates) ==
  IF updates.given = {} \/ memoryId \notin DOMAIN d.memories THEN d
  ELSE LET has(k) == k \in updates.given
       IN [d EXCEPT !.memories[memoryId] =
            [@ EXCEPT !.intent = IF has("intent") THEN updates.intent ELSE @,
                      !.intent_goal = IF has("intent") THEN updates.intent.goal ELSE @,
                      !.intent_type = IF has("intent") THEN updates.intent.task_type ELSE @,
                      !.relevant_files =
                        IF has("perception") THEN updates.relevant_files ELSE @,
                      !.reasoning = IF has("reasoning") THEN updates.reasoning ELSE @,
                      !.actions = IF has("actions") THEN updates.actions ELSE @,
                      !.outcome = IF has("outcome") THEN updates.outcome ELSE @,
                      !.outcome_success =
                        IF has("outcome") THEN updates.outcome.success ELSE @,
                      !.tags = IF has("tags") THEN updates.tags ELSE @,
                      !.importance = IF has("importance") THEN updates.importance ELSE @,
                      !.embedding = IF has("embedding") THEN updates.embedding ELSE @]]

\* RumDatabase.updateMemory: UPDATE memories SET <given columns> WHERE id = ?
db_updateMemory(d, memoryId, updates) ==
  IF updates.given = {} \/ memoryId \notin DOMAIN d.memories THEN d
  ELSE LET has(k) == k \in updates.given
       IN [d EXCEPT !.memories[memoryId] =
            [@ EXCEPT !.intent = IF has("intent") THEN updates.intent ELSE @,
                      !.intent_goal = IF has("intent") THEN updates.intent.goal ELSE @,
                      !.intent_type = IF has("intent") THEN updates.intent.task_type ELSE @,
                      !.relevant_files =
                        IF has("perception") THEN updates.relevant_files ELSE @,
                      !.reasoning = IF has("reasoning") THEN updates.reasoning ELSE @,
                      !.actions = IF has("actions") THEN updates.actions ELSE @,
                      !.outcome = IF has("outcome") THEN updates.outcome ELSE @,
                      !.outcome_success =
                        IF has("outcome") THEN updates.outcome.success ELSE @,
                      !.outcome_summary =
                        IF has("outcome") THEN updates.outcome.summary ELSE @,
                      !.tags = IF has("tags") THEN updates.tags ELSE @,
                      !.importance = IF has("importance") THEN updates.importance ELSE @,
                      !.embedding = IF has("embedding") THEN updates.embedding ELSE @]]

\* ------------------------------------------------------- request parameters
\* an action names a file or not (file_path = <<>>: none)
Action(type, path) == [type |-> type, file_path |-> path]

\* a text is a sequence of characters; Word(c) is a word of four letters and
\* Text(words) the words with one blank between them
Word(c) == <<c, c, c, c>>

RECURSIVE Text(_)
Text(words) ==
  IF words = <<>> THEN <<>>
  ELSE IF Len(words) = 1 THEN words[1]
  ELSE words[1] \o <<" ">> \o Text(Tail(words))

GoalABCD == Text(<<Word("a"), Word("b"), Word("c"), Word("d")>>)
GoalZ == <<"z", "z">>

\* intent/outcome/reasoning/actions/perception/tags/importance of a store
\* call, as far as the store and the services read them (learnings,
\* reasoning: None if absent; relevant_files = <<>>: no perception layer;
\* importance = NULL: not given)
ContentPlain ==
  [success |-> TRUE, actions |-> <<>>, relevant_files |-> <<>>,
   goal |-> GoalZ, task_type |-> "feature", tags |-> {}, learnings |-> None,
   reasoning |-> None, summary |-> "done", importance |-> NULL]

ContentFiles ==
  [success |-> FALSE,
   actions |-> <<Action("command", <<>>), Action("file_edit", PathA)>>,
   relevant_files |-> <<PathA, PathAB>>,
   goal |-> GoalABCD, task_type |-> "bugfix", tags |-> {"t1"}, learnings |-> "l",
   reasoning |-> "r", summary |-> "failed", importance |-> NULL]

NoLinks == [caused_by |-> <<>>, related_to |-> <<>>, supersedes |-> NULL]

\* params.links of a store call whose targets are drawn from T
StoreLinks(T) ==
  {NoLinks}
  \cup {[NoLinks EXCEPT !.caused_by = <<t>>] : t \in T}
  \cup {[NoLinks EXCEPT !.related_to = <<t>>] : t \in T}
  \cup {[NoLinks EXCEPT !.supersedes = t] : t \in T}
  \cup {[NoLinks EXCEPT !.caused_by = <<t>>, !.related_to = <<t>>] : t \in T}

\* ------------------------------------------------------------ MemoryService
\* the (path, operation) pairs store indexes: actions that name a file, then
\* perception.relevant_files
RECURSIVE actionFiles(_)
actionFiles(actions) ==
  IF actions = <<>> THEN <<>>
  ELSE (IF Head(actions).file_path # <<>>
          THEN <<[path |-> Head(actions).file_path, operation |-> Head(actions).type]>>
          ELSE <<>>) \o actionFiles(Tail(actions))

relevantFiles(paths) == [i \in DOMAIN paths |-> [path |-> paths[i], operation |-> "relevant"]]

\* store that writes each cause under the inverse label
storeLinkCalls_inverseLabel(links) ==
  [i \in DOMAIN links.caused_by |-> [target |-> links.caused_by[i], type |-> "led_to"]]
  \o [i \in DOMAIN links.related_to |-> [target |-> links.related_to[i], type |-> "related_to"]]
  \o (IF links.supersedes # NULL
        THEN <<[target |-> links.supersedes, type |-> "supersedes"]>> ELSE <<>>)

\* the createLink calls of store, in order: caused_by, related_to, supersedes
storeLinkCalls(links) ==
  [i \in DOMAIN links.caused_by |-> [target |-> links.caused_by[i], type |-> "caused_by"]]
  \o [i \in DOMAIN links.related_to |-> [target |-> links.related_to[i], type |-> "related_to"]]
  \o (IF links.supersedes # NULL
        THEN <<[target |-> links.supersedes, type |-> "supersedes"]>> ELSE <<>>)

\* a run of createLink calls; the first one that raises ends the run
RECURSIVE createLinks(_, _, _)
createLinks(d, sourceId, calls) ==
  IF calls = <<>> THEN Ok(d)
  ELSE LET r == db_createLink(d, sourceId, Head(calls).target, Head(calls).type)
       IN IF r.ok THEN createLinks(r.db, sourceId, Tail(calls)) ELSE r

\* ---------------------------------------------------------- EmbeddingService
\* what the backend answers to one request: an embedding, or Fail for a
\* network error or a non-success response
Embeddings == {<<1, 0>>, <<0, 1>>, <<1, 1>>}
Fail == <<"fail">>
Backend == Embeddings \cup {Fail}

NoEmbedCall == [called |-> FALSE, contacted |-> FALSE, result |-> NoEmbedding]

\* no handler is suspended; finished: the updateMemory calls that were
\* suspended and have returned
NoneAwaiting == [store |-> {}, update |-> {}, finished |-> {}]

\* embed that keeps the service enabled after a failure
embed_staysEnabled(en, answer) ==
  IF ~en THEN [called |-> TRUE, contacted |-> FALSE, result |-> NoEmbedding, enabled |-> FALSE]
  ELSE IF answer = Fail
    THEN [called |-> TRUE, contacted |-> TRUE, result |-> NoEmbedding, enabled |-> TRUE]
  ELSE [called |-> TRUE, contacted |-> TRUE, result |-> answer, enabled |-> TRUE]

\* EmbeddingService.embed while the service is enabled or not (en), the
\* backend answering with answer: the result (NoEmbedding: null), whether the
\* backend was contacted, and the enabled flag afterwards
embed(en, answer) ==
  IF ~en THEN [called |-> TRUE, contacted |-> FALSE, result |-> NoEmbedding, enabled |-> FALSE]
  ELSE IF answer = Fail
    THEN [called |-> TRUE, contacted |-> TRUE, result |-> NoEmbedding, enabled |-> FALSE]
  ELSE [called |-> TRUE, contacted |-> TRUE, result |-> answer, enabled |-> TRUE]

\* what a handler that calls embed only when isEnabled gets: no call at all
\* when the service is disabled
embedIfEnabled(en, answer) ==
  IF en THEN embed(en, answer)
  ELSE [called |-> FALSE, contacted |-> FALSE, result |-> NoEmbedding, enabled |-> FALSE]

\* the answers the backend can give to the calls of one handler (one value
\* when the service is disabled: the backend is not asked)
Answers == IF enabled THEN Backend ELSE {Fail}

EmbedCallOf(e) == [called |-> e.called, contacted |-> e.contacted, result |-> e.result]

\* createEmbeddingText: the fields of intent, outcome and reasoning it joins
createEmbeddingText(intent, outcome, approach_chosen) ==
  <<intent.goal, intent.task_type, outcome.summary, outcome.learnings, approach_chosen>>

\* store that raises when it got no embedding
storeResult_requiresEmbedding(d, memoryId, agentId, sessionId, p, embedding, t) ==
  LET targetAgentId == IF p.target_agent_id # NULL THEN p.target_agent_id ELSE agentId
      r1 == IF embedding = NoEmbedding THEN Throw(d)
            ELSE db_createMemory(d, memoryId, targetAgentId, sessionId, p, embedding, t)
      r2 == IF r1.ok
              THEN insertFiles(r1.db, memoryId,
                               actionFiles(p.actions) \o relevantFiles(p.relevant_files))
              ELSE r1
      r3 == IF r2.ok THEN createLinks(r2.db, memoryId, storeLinkCalls(p.links)) ELSE r2
  IN IF r3.ok
       THEN Ok(db_incrementSessionMemories(
                 db_incrementAgentMemoryCount(r3.db, agentId, p.success), sessionId))
       ELSE r3

\* MemoryService.store, from createMemory to the counter updates
storeResult(d, memoryId, agentId, sessionId, p, embedding, t) ==
  LET targetAgentId == IF p.target_agent_id # NULL THEN p.target_agent_id ELSE agentId
      r1 == db_createMemory(d, memoryId, targetAgentId, sessionId, p, embedding, t)
      r2 == IF r1.ok
              THEN insertFiles(r1.db, memoryId,
                               actionFiles(p.actions) \o relevantFiles(p.relevant_files))
              ELSE r1
      r3 == IF r2.ok THEN createLinks(r2.db, memoryId, storeLinkCalls(p.links)) ELSE r2
  IN IF r3.ok
       THEN Ok(db_incrementSessionMemories(
                 db_incrementAgentMemoryCount(r3.db, agentId, p.success), sessionId))
       ELSE r3

\* params of a store call: content drawn from C, links from L, and the agent
\* to write to (NULL: the current one) from A
WithContent(c, l, a) ==
  [success |-> c.success, actions |-> c.actions, relevant_files |-> c.relevant_files,
   goal |-> c.goal, task_type |-> c.task_type, tags |-> c.tags,
   learnings |-> c.learnings, reasoning |-> c.reasoning,
   summary |-> c.summary, importance |-> c.importance,
   links |-> l, target_agent_id |-> a]

StoreParams(C, L, A) == {WithContent(c, l, a) : c \in C, l \in L, a \in A}

\* a memory id the caller of a store can know: one issued before, or none
KnownMems == (1..(ids.mem - 1)) \cup {NoMem}

store(p) ==
  /\ IF currentAgentId = NULL \/ currentSessionId = NULL
       THEN /\ last' = Last("store", TRUE, FALSE, {})
            /\ embedCall' = NoEmbedCall
            /\ UNCHANGED <<db, ids, enabled>>
       ELSE \E answer \in Answers :
            LET e == embedIfEnabled(enabled, answer)
                r == storeResult(db, ids.mem, currentAgentId, currentSessionId, p,
                                 e.result, now)
            IN /\ db' = r.db
               /\ ids' = IF db_hasMemory(r.db, ids.mem) THEN [ids EXCEPT !.mem = @ + 1] ELSE ids
               /\ last' = Last("store", ~r.ok, r.ok, {})
               /\ enabled' = e.enabled
               /\ embedCall' = EmbedCallOf(e)
  /\ UNCHANGED <<currentAgentId, currentSessionId, identity, now, awaiting>>

\* MemoryService.link
link(sourceId, targetId, linkType) ==
  LET r == db_createLink(db, sourceId, targetId, linkType)
  IN /\ db' = r.db
     /\ last' = Last("link", ~r.ok, r.ok,
                     IF BagIn(LinkRow(sourceId, targetId, linkType), db.memory_links)
                       THEN {"duplicate"} ELSE {})
     /\ UNCHANGED <<ids, currentAgentId, currentSessionId, identity, now, embVars>>

\* which kinds of rows name the memory
ownedRows(d, memoryId) ==
  (IF \E r \in d.memory_files : r.memory_id = memoryId THEN {"files"} ELSE {})
  \cup (IF \E r \in LinkRows(d) : r.source_id = memoryId THEN {"links_from"} ELSE {})
  \cup (IF \E r \in LinkRows(d) : r.target_id = memoryId THEN {"links_to"} ELSE {})
  \cup (IF \E r \in d.chapter_memories : r.memory_id = memoryId THEN {"chapters"} ELSE {})

\* MemoryService.deleteMemory
deleteMemory(memoryId) ==
  LET r == db_deleteMemory(db, memoryId)
  IN /\ db' = r.db
     /\ last' = Last("deleteMemory", FALSE, r.deleted, ownedRows(db, memoryId))
     /\ UNCHANGED <<ids, currentAgentId, currentSessionId, identity, now, embVars>>

\* params of an updateMemory call: `given` names the keys the patch carries.
\* A patch of an object layer (intent, outcome, perception, reasoning) is a
\* record of the fields it names: the schemas are partial
NoPatch ==
  [given |-> {}, intent |-> EmptyFcn, outcome |-> EmptyFcn, perception |-> EmptyFcn,
   reasoning |-> EmptyFcn, actions |-> <<>>, tags |-> {}, importance |-> NULL,
   caused_by |-> <<>>, led_to |-> <<>>, related_to |-> <<>>, supersedes |-> NULL,
   blocked_by |-> NULL]

OutcomePatch == [NoPatch EXCEPT !.given = {"outcome"}, !.outcome = [success |-> FALSE]]
IntentPatch == [NoPatch EXCEPT !.given = {"intent"}, !.intent = [goal |-> Word("e")]]
ActionsPatch == [NoPatch EXCEPT !.given = {"actions"}, !.actions = <<Action("file_edit", PathB)>>]
PerceptionPatch ==
  [NoPatch EXCEPT !.given = {"perception"}, !.perception = [relevant_files |-> <<PathB>>]]

\* patches of links.caused_by with targets drawn from T
CausePatches(T) ==
  {[NoPatch EXCEPT !.given = {"caused_by"}, !.caused_by = l] :
          l \in {<<>>} \cup {<<t>> : t \in T}}

\* patches of the other link types, and one that patches actions and two
\* link types at once
LinkPatches(T) ==
  {[NoPatch EXCEPT !.given = {"supersedes"}, !.supersedes = t] : t \in T \cup {NULL}}
  \cup {[NoPatch EXCEPT !.given = {"blocked_by"}, !.blocked_by = t] : t \in T}
  \cup {[NoPatch EXCEPT !.given = {"actions", "caused_by", "related_to"},
                        !.actions = <<Action("file_edit", PathB)>>,
                        !.caused_by = <<t, t>>, !.related_to = <<t>>] : t \in T}

\* the files updateMemory hands to replaceMemoryFiles: merged actions that name
\* a file, then merged relevant_files whose path is not yet listed
RECURSIVE unlistedFiles(_, _)
unlistedFiles(paths, listed) ==
  IF paths = <<>> THEN <<>>
  ELSE IF Head(paths) \in listed THEN unlistedFiles(Tail(paths), listed)
  ELSE <<[path |-> Head(paths), operation |-> "relevant"]>>
         \o unlistedFiles(Tail(paths), listed \cup {Head(paths)})

updateFiles(actions, paths) ==
  LET fromActions == actionFiles(actions)
  IN fromActions \o unlistedFiles(paths, {fromActions[i].path : i \in DOMAIN fromActions})

\* one link type of params.links: delete the memory's links of the type, then
\* create the given ones (updateMemory does so for caused_by, related_to,
\* supersedes and blocked_by; it does not read params.links.led_to)
replaceLinks(r, memoryId, patch, key, targets) ==
  IF ~r.ok \/ key \notin patch.given THEN r
  ELSE createLinks(db_deleteMemoryLinksByType(r.db, memoryId, key), memoryId,
                   [i \in DOMAIN targets |-> [target |-> targets[i], type |-> key]])

\* deepMerge that appends a patched array to the old one
deepMerge_appendsArrays(base, updates) ==
  [k \in DOMAIN base \cup DOMAIN updates |->
     IF k \notin DOMAIN updates THEN base[k]
     ELSE IF k = "relevant_files" /\ k \in DOMAIN base THEN base[k] \o updates[k]
     ELSE updates[k]]

\* MemoryService.deepMerge of an object layer whose fields are strings,
\* booleans and arrays: a field the updates name takes their value (an array
\* as a whole), every other field keeps the value of base
deepMerge(base, updates) ==
  [k \in DOMAIN base \cup DOMAIN updates |->
     IF k \in DOMAIN updates THEN updates[k] ELSE base[k]]

\* the layers of the memory after the patch: merged with the existing ones
mergedIntent(existing, p) ==
  IF "intent" \in p.given THEN deepMerge(existing.intent, p.intent) ELSE existing.intent

mergedOutcome(existing, p) ==
  IF "outcome" \in p.given THEN deepMerge(existing.outcome, p.outcome) ELSE existing.outcome

mergedPerception(existing, p) ==
  IF "perception" \in p.given
    THEN deepMerge([relevant_files |-> existing.relevant_files], p.perception)
    ELSE [relevant_files |-> existing.relevant_files]

mergedReasoning(existing, p) ==
  IF "reasoning" \in p.given
    THEN deepMerge([approach_chosen |-> existing.reasoning], p.reasoning)
    ELSE [approach_chosen |-> existing.reasoning]

\* MemoryService.updateMemory from the row that getMemory returned (existing)
\* on: the merge, and the writes to the store as it is after the await
updateResultFrom(d, existing, p, embedding) ==
  LET id == p.memory_id
      mergedActions == IF "actions" \in p.given THEN p.actions ELSE existing.actions
      mergedFiles == mergedPerception(existing, p).relevant_files
      updates == [given |-> (p.given \cap {"intent", "outcome", "perception", "reasoning",
                                           "actions", "tags", "importance"})
                            \cup (IF embedding # NoEmbedding THEN {"embedding"} ELSE {}),
                  intent |-> mergedIntent(existing, p),
                  outcome |-> mergedOutcome(existing, p),
                  relevant_files |-> mergedFiles,
                  reasoning |-> mergedReasoning(existing, p).approach_chosen,
                  actions |-> mergedActions,
                  tags |-> IF "tags" \in p.given THEN p.tags ELSE existing.tags,
                  importance |-> IF "importance" \in p.given THEN p.importance
                                 ELSE existing.importance,
                  embedding |-> embedding]
      d1 == db_updateMemory(d, id, updates)
      r2 == IF p.given \cap {"actions", "perception"} # {}
              THEN db_replaceMemoryFiles(d1, id, updateFiles(mergedActions, mergedFiles))
              ELSE Ok(d1)
      r3 == replaceLinks(r2, id, p, "caused_by", p.caused_by)
      r4 == replaceLinks(r3, id, p, "related_to", p.related_to)
      r5 == replaceLinks(r4, id, p, "supersedes",
                         IF p.supersedes # NULL THEN <<p.supersedes>> ELSE <<>>)
  IN replaceLinks(r5, id, p, "blocked_by",
                  IF p.blocked_by # NULL THEN <<p.blocked_by>> ELSE <<>>)

\* MemoryService.updateMemory, after the memory was found, when nothing runs
\* between its getMemory and its writes
updateResult(d, p, embedding) == updateResultFrom(d, d.memories[p.memory_id], p, embedding)

\* whether updateMemory asks for a new embedding: the service is enabled, the
\* patch names intent, outcome or reasoning, and the embedding text changed
updateEmbeds(d, m, q) ==
  LET existing == d.memories[m]
      previousText == createEmbeddingText(existing.intent, existing.outcome,
                                          existing.reasoning)
      updatedText == createEmbeddingText(mergedIntent(existing, q), mergedOutcome(existing, q),
                                         mergedReasoning(existing, q).approach_chosen)
  IN /\ enabled
     /\ q.given \cap {"intent", "outcome", "reasoning"} # {}
     /\ previousText # updatedText

updateMemory(m, q) ==
  /\ IF ~db_hasMemory(db, m)
       THEN /\ last' = Last("updateMemory", TRUE, FALSE, {})
            /\ embedCall' = NoEmbedCall
            /\ UNCHANGED <<db, enabled>>
       ELSE \E answer \in Answers :
            LET e == IF updateEmbeds(db, m, q) THEN embed(enabled, answer)
                     ELSE [called |-> FALSE, contacted |-> FALSE, result |-> NoEmbedding,
                           enabled |-> enabled]
                r == updateResult(db, [memory_id |-> m] @@ q, e.result)
            IN /\ db' = r.db
               /\ last' = Last("updateMemory", ~r.ok, r.ok, {})
               /\ enabled' = e.enabled
               /\ embedCall' = EmbedCallOf(e)
  /\ UNCHANGED <<ids, currentAgentId, currentSessionId, identity, now, awaiting>>

\* MemoryService.store up to `await this.embeddings.embed(...)`: the call is
\* suspended with its memoryId and targetAgentId; calledAs notes the agent
\* and session that were current. With the service disabled there is no
\* await and the call runs to its end.
storeCall(p) ==
  IF currentAgentId = NULL \/ currentSessionId = NULL \/ ~enabled
    THEN store(p)
    ELSE /\ awaiting' = [awaiting EXCEPT !.store = @ \cup
                           {[memoryId |-> ids.mem,
                             targetAgentId |-> IF p.target_agent_id # NULL
                                                 THEN p.target_agent_id ELSE currentAgentId,
                             p |-> p,
                             calledAs |-> Identity(currentAgentId, currentSessionId)]}]
         /\ ids' = [ids EXCEPT !.mem = @ + 1]
         /\ last' = Last("await", FALSE, FALSE, {})
         /\ UNCHANGED <<db, currentAgentId, currentSessionId, identity, now, enabled,
                        embedCall>>

\* MemoryService.store from the answer of embed on: createMemory with the
\* targetAgentId of the call and this.currentSessionId, the file rows and
\* links, the counters of this.currentAgentId and this.currentSessionId
storeResume(c, answer) ==
  /\ c \in awaiting.store
  /\ LET e == embed(enabled, answer)
         r == storeResult(db, c.memoryId, currentAgentId, currentSessionId,
                          [c.p EXCEPT !.target_agent_id = c.targetAgentId], e.result, now)
     IN /\ db' = r.db
        /\ last' = Last("store", ~r.ok, r.ok, {c})
        /\ enabled' = e.enabled
        /\ embedCall' = EmbedCallOf(e)
  /\ awaiting' = [awaiting EXCEPT !.store = @ \ {c}]
  /\ UNCHANGED <<ids, currentAgentId, currentSessionId, identity, now>>

\* MemoryService.updateMemory up to `await this.embeddings.embed(updatedText)`:
\* the call is suspended with the row it read; with notes the patches of the
\* calls on the same memory that are suspended at that moment. A call that
\* asks for no embedding runs to its end.
updateCall(m, q) ==
  IF ~db_hasMemory(db, m) \/ ~updateEmbeds(db, m, q)
    THEN updateMemory(m, q)
    ELSE /\ awaiting' = [awaiting EXCEPT !.update = @ \cup
                           {[memory_id |-> m, q |-> q, existing |-> db.memories[m],
                             with |-> {o.q : o \in {x \in awaiting.update :
                                                      x.memory_id = m}}]}]
         /\ last' = Last("await", FALSE, FALSE, {})
         /\ UNCHANGED <<db, ids, currentAgentId, currentSessionId, identity, now, enabled,
                        embedCall>>

\* MemoryService.updateMemory from the answer of embed on: the updates merged
\* before the await are written, then the file rows and links; the call
\* raises when getMemory does not find the memory afterwards
updateResume(c, answer) ==
  /\ c \in awaiting.update
  /\ LET e == embed(enabled, answer)
         r == updateResultFrom(db, c.existing, [memory_id |-> c.memory_id] @@ c.q, e.result)
         ok == r.ok /\ db_hasMemory(r.db, c.memory_id)
     IN /\ db' = r.db
        /\ last' = Last("updateMemory", ~ok, ok, {})
        /\ enabled' = e.enabled
        /\ embedCall' = EmbedCallOf(e)
        /\ awaiting' = [awaiting EXCEPT
                          !.update = @ \ {c},
                          !.finished = IF ok THEN @ \cup {[memory_id |-> c.memory_id, q |-> c.q,
                                                           with |-> c.with]}
                                       ELSE @]
  /\ UNCHANGED <<ids, currentAgentId, currentSessionId, identity, now>>

\* ----------------------------------------------------------- ChapterService
MaxIdList == 2     \* longest id list a caller passes

IdLists(S) == {<<>>} \cup UNION {[1..n -> S] : n \in 1..MaxIdList}

\* Array.prototype.sort by created_at ascending (stable)
RECURSIVE insertByCreated(_, _, _)
insertByCreated(d, sorted, m) ==
  IF sorted = <<>> THEN <<m>>
  ELSE IF d.memories[m].created_at < d.memories[Head(sorted)].created_at
    THEN <<m>> \o sorted
  ELSE <<Head(sorted)>> \o insertByCreated(d, Tail(sorted), m)

RECURSIVE sortByCreated(_, _)
sortByCreated(d, memories) ==
  IF memories = <<>> THEN <<>>
  ELSE LET rest == sortByCreated(d, SubSeq(memories, 1, Len(memories) - 1))
       IN insertByCreated(d, rest, memories[Len(memories)])

\* forEach((memory, index) => addChapterMemory({..., position: index}))
RECURSIVE addMembers(_, _, _, _)
addMembers(d, chapterId, memories, index) ==
  IF memories = <<>> THEN Ok(d)
  ELSE LET r == db_addChapterMemory(d, chapterId, Head(memories), index)
       IN IF r.ok THEN addMembers(r.db, chapterId, Tail(memories), index + 1) ELSE r

SeqMin(f) == CHOOSE x \in {f[i] : i \in DOMAIN f} : \A y \in {f[i] : i \in DOMAIN f} : x <= y
SeqMax(f) == CHOOSE x \in {f[i] : i \in DOMAIN f} : \A y \in {f[i] : i \in DOMAIN f} : x >= y

\* the tags array of a memory row: the tags in the order they were given
TagOrder == <<"t1", "t2">>
tagArray(tags) == SelectSeq(TagOrder, LAMBDA t : t \in tags)

\* Array.from(new Set(values)): each value once, at its first position
Dedup(values) ==
  LET first == {i \in DOMAIN values : \A j \in 1..(i - 1) : values[j] # values[i]}
  IN [r \in 1..Cardinality(first) |->
        values[CHOOSE i \in first : Cardinality({j \in first : j < i}) = r - 1]]

\* the entries of a Map of counts, built by counting the values in turn: the
\* distinct values in the order of their first insertion
Occurrences(values, v) == Cardinality({i \in DOMAIN values : values[i] = v})

\* entries.sort((a, b) => b[1] - a[1]).map(([tag]) => tag): a stable sort of
\* the keys by descending count
sortByCountDesc(keys, values) ==
  LET cnt(i) == Occurrences(values, keys[i])
      before(i) == Cardinality({j \in DOMAIN keys :
                                  \/ cnt(j) > cnt(i)
                                  \/ cnt(j) = cnt(i) /\ j < i})
  IN [r \in DOMAIN keys |-> keys[CHOOSE i \in DOMAIN keys : before(i) = r - 1]]

\* the tags of the memories, one array after the other
RECURSIVE memoryTags(_, _)
memoryTags(d, memories) ==
  IF memories = <<>> THEN <<>>
  ELSE tagArray(d.memories[Head(memories)].tags) \o memoryTags(d, Tail(memories))

\* sortedTags.slice(0, 5)
MaxDerivedTopics == 5

\* ChapterService.summarizeMemories: derivedTags and derivedTopics
summarizeMemories(d, memories) ==
  LET all == memoryTags(d, memories)
      sortedTags == sortByCountDesc(Dedup(all), all)
  IN [derivedTags |-> sortedTags,
      derivedTopics |-> SubSeq(sortedTags, 1, IF Len(sortedTags) < MaxDerivedTopics
                                               THEN Len(sortedTags)
                                               ELSE MaxDerivedTopics)]

\* ChapterService.mergeStrings (the empty sequence also stands for undefined)
mergeStrings(primary, fallback) == Dedup(primary \o fallback)

\* ChapterService.createChapterFromMemories: the store it leaves and the
\* memory_count of the ChapterSummary it returns
createChapterFromMemories(d, chapterId, memories, tags, topics, origin, t) ==
  LET stamps == [i \in DOMAIN memories |-> d.memories[memories[i]].created_at]
      derived == summarizeMemories(d, memories)
      r1 == db_createChapter(d, chapterId,
                             [created_at |-> t, start_ts |-> SeqMin(stamps),
                              end_ts |-> SeqMax(stamps),
                              tags |-> mergeStrings(tags, derived.derivedTags),
                              topics |-> mergeStrings(topics, derived.derivedTopics),
                              origin |-> origin])
      r2 == IF r1.ok THEN addMembers(r1.db, chapterId, sortByCreated(d, memories), 0) ELSE r1
  IN [db |-> r2.db, ok |-> r2.ok, memory_count |-> Len(memories)]

\* (SELECT COUNT(*) FROM chapter_memories cm WHERE cm.chapter_id = c.id) AS
\* memory_count of RumDatabase.listChapters and getChapter
db_chapterMemoryCount(d, chapterId) ==
  Cardinality({r \in d.chapter_memories : r.chapter_id = chapterId})

\* params.memory_ids.map((id) => this.db.getMemory(id)).filter(Boolean)
foundMemories(d, memory_ids) == SelectSeq(memory_ids, LAMBDA m : db_hasMemory(d, m))

\* ChapterService.createChapter with an explicit memory_ids list, tags and
\* topics
createChapter(memory_ids, tags, topics) ==
  LET memories == foundMemories(db, memory_ids)
  IN /\ IF memories = <<>>
          THEN /\ last' = Last("createChapter", TRUE, FALSE, {})
               /\ UNCHANGED <<db, ids>>
          ELSE LET r == createChapterFromMemories(db, ids.chapter, memories, tags, topics,
                                                  "manual", now)
               IN /\ db' = r.db
                  /\ ids' = [ids EXCEPT !.chapter = @ + 1]
                  /\ last' = Last("createChapter", ~r.ok, r.ok, {})
     /\ UNCHANGED <<currentAgentId, currentSessionId, identity, now, embVars>>

\* ChapterService.deleteChapter
deleteChapter(chapterId) ==
  LET r == db_deleteChapter(db, chapterId)
  IN /\ db' = r.db
     /\ last' = Last("deleteChapter", FALSE, r.deleted,
                     (IF \E x \in db.chapter_memories : x.chapter_id = chapterId
                        THEN {"memories"} ELSE {})
                     \cup (IF \E x \in db.wisdom_chapters : x.chapter_id = chapterId
                             THEN {"wisdom"} ELSE {}))
     /\ UNCHANGED <<ids, currentAgentId, currentSessionId, identity, now, embVars>>

\* --------------------------------------------------------- SynthesisService
\* for (const chapter of chapters) addWisdomChapter(...)
RECURSIVE addWisdomChapters(_, _, _)
addWisdomChapters(d, wisdomId, chapters) ==
  IF chapters = {} THEN Ok(d)
  ELSE LET c == CHOOSE x \in chapters : TRUE
           r == db_addWisdomChapter(d, wisdomId, c)
       IN IF r.ok THEN addWisdomChapters(r.db, wisdomId, chapters \ {c}) ELSE r

SetMin(S) == CHOOSE x \in S : \A y \in S : x <= y
SetMax(S) == CHOOSE x \in S : \A y \in S : x >= y

\* the orders in which the rows of the chapters can come back: any order for
\* getChaptersByIds (the SELECT has no ORDER BY), created_at DESC for the
\* listing
chapterOrders(d, chapters, listing) ==
  {o \in [1..Cardinality(chapters) -> chapters] :
     /\ \A i, j \in DOMAIN o : i # j => o[i] # o[j]
     /\ listing => \A i, j \in DOMAIN o :
                      i < j => d.chapters[o[i]].created_at >= d.chapters[o[j]].created_at}

\* for (const tag of [...tags, ...topics]) over the chapters in turn
RECURSIVE chapterTagsAndTopics(_, _)
chapterTagsAndTopics(d, chapters) ==
  IF chapters = <<>> THEN <<>>
  ELSE d.chapters[Head(chapters)].tags \o d.chapters[Head(chapters)].topics
       \o chapterTagsAndTopics(d, Tail(chapters))

\* patterns: the entries of tagCounts with count >= 2, by descending count
patternsOf(d, chapters) ==
  LET all == chapterTagsAndTopics(d, chapters)
      repeated == SelectSeq(Dedup(all), LAMBDA t : Occurrences(all, t) >= 2)
  IN sortByCountDesc(repeated, all)

\* synthesize that asks for more chapters than min_chapters
synthesize_strictMinimum(chapter_ids, min_chapters) ==
  LET resolved == IF Len(chapter_ids) > 0 THEN db_getChaptersByIds(db, chapter_ids)
                  ELSE DOMAIN db.chapters
      minChapters == IF min_chapters # NULL THEN min_chapters ELSE 2
  IN /\ IF resolved = {} \/ Cardinality(resolved) <= minChapters
          THEN /\ last' = Last("synthesize", TRUE, FALSE, {})
               /\ UNCHANGED <<db, ids>>
          ELSE \E chapters \in chapterOrders(db, resolved, Len(chapter_ids) = 0) :
               LET patterns == patternsOf(db, chapters)
                   r1 == db_createWisdom(db, ids.wisdom,
                           [created_at |-> now, patterns |-> patterns, tags |-> patterns,
                            start_ts |-> SetMin({db.chapters[c].start_ts : c \in resolved}),
                            end_ts |-> SetMax({0} \cup {db.chapters[c].end_ts : c \in resolved})])
                   r == IF r1.ok THEN addWisdomChapters(r1.db, ids.wisdom, resolved) ELSE r1
               IN /\ db' = r.db
                  /\ ids' = [ids EXCEPT !.wisdom = @ + 1]
                  /\ last' = Last("synthesize", ~r.ok, r.ok, {})
     /\ UNCHANGED <<currentAgentId, currentSessionId, identity, now, embVars>>

\* SynthesisService.synthesize: chapter_ids (or, when empty, the chapter
\* listing) and min_chapters (NULL: not given, or 0, which `|| 2` reads alike)
synthesize(chapter_ids, min_chapters) ==
  LET resolved == IF Len(chapter_ids) > 0 THEN db_getChaptersByIds(db, chapter_ids)
                  ELSE DOMAIN db.chapters
      minChapters == IF min_chapters # NULL THEN min_chapters ELSE 2
  IN /\ IF resolved = {} \/ Cardinality(resolved) < minChapters
          THEN /\ last' = Last("synthesize", TRUE, FALSE, {})
               /\ UNCHANGED <<db, ids>>
          ELSE \E chapters \in chapterOrders(db, resolved, Len(chapter_ids) = 0) :
               LET patterns == patternsOf(db, chapters)
                   r1 == db_createWisdom(db, ids.wisdom,
                           [created_at |-> now, patterns |-> patterns, tags |-> patterns,
                            start_ts |-> SetMin({db.chapters[c].start_ts : c \in resolved}),
                            end_ts |-> SetMax({0} \cup {db.chapters[c].end_ts : c \in resolved})])
                   r == IF r1.ok THEN addWisdomChapters(r1.db, ids.wisdom, resolved) ELSE r1
               IN /\ db' = r.db
                  /\ ids' = [ids EXCEPT !.wisdom = @ + 1]
                  /\ last' = Last("synthesize", ~r.ok, r.ok, {})
     /\ UNCHANGED <<currentAgentId, currentSessionId, identity, now, embVars>>

\* SynthesisService.deleteWisdom
deleteWisdom(wisdomId) ==
  LET r == db_deleteWisdom(db, wisdomId)
  IN /\ db' = r.db
     /\ last' = Last("deleteWisdom", FALSE, r.deleted, {})
     /\ UNCHANGED <<ids, currentAgentId, currentSessionId, identity, now, embVars>>

\* ---------------------------------------------------------- IdentityService
\* register that validates only a parent_id that is given
register_noParentRequired(type, parent_id) ==
  /\ IF type = "subagent" /\ parent_id # NULL /\ parent_id \notin DOMAIN db.agents
       THEN /\ last' = Last("register", TRUE, FALSE, {[type |-> type, parent_id |-> parent_id]})
            /\ UNCHANGED <<db, ids, currentAgentId, currentSessionId, identity>>
       ELSE LET r1 == db_createAgent(db, ids.agent, type, parent_id, now)
                r == IF r1.ok THEN db_createSession(r1.db, ids.session, ids.agent, now)
                     ELSE r1
            IN /\ db' = r.db
               /\ last' = Last("register", ~r.ok, r.ok, {[type |-> type, parent_id |-> parent_id]})
               /\ IF r.ok
                    THEN /\ ids' = [ids EXCEPT !.agent = @ + 1, !.session = @ + 1]
                         /\ currentAgentId' = ids.agent
                         /\ currentSessionId' = ids.session
                         /\ identity' = Identity(ids.agent, ids.session)
                    ELSE UNCHANGED <<ids, currentAgentId, currentSessionId, identity>>
  /\ UNCHANGED <<now, embVars>>

\* the identity tool with action register: IdentityService.register, then
\* MemoryService.setCurrentAgent
register(type, parent_id) ==
  /\ IF type = "subagent" /\ (parent_id = NULL \/ parent_id \notin DOMAIN db.agents)
       THEN /\ last' = Last("register", TRUE, FALSE, {[type |-> type, parent_id |-> parent_id]})
            /\ UNCHANGED <<db, ids, currentAgentId, currentSessionId, identity>>
       ELSE LET r1 == db_createAgent(db, ids.agent, type, parent_id, now)
                r == IF r1.ok THEN db_createSession(r1.db, ids.session, ids.agent, now)
                     ELSE r1
            IN /\ db' = r.db
               /\ last' = Last("register", ~r.ok, r.ok, {[type |-> type, parent_id |-> parent_id]})
               /\ IF r.ok
                    THEN /\ ids' = [ids EXCEPT !.agent = @ + 1, !.session = @ + 1]
                         /\ currentAgentId' = ids.agent
                         /\ currentSessionId' = ids.session
                         /\ identity' = Identity(ids.agent, ids.session)
                    ELSE UNCHANGED <<ids, currentAgentId, currentSessionId, identity>>
  /\ UNCHANGED <<now, embVars>>

\* UPDATE sessions SET ended_at = ?, final_outcome = ? WHERE id = ?
db_endSession(d, sessionId, finalOutcome, t) ==
  IF sessionId \notin DOMAIN d.sessions THEN d
  ELSE [d EXCEPT !.sessions[sessionId].ended_at = t,
                 !.sessions[sessionId].final_outcome = finalOutcome]

\* UPDATE agents SET last_active_at = ?, session_count = session_count + 1
db_updateAgentActivity(d, agentId, t) ==
  IF agentId \notin DOMAIN d.agents THEN d
  ELSE [d EXCEPT !.agents[agentId].last_active_at = t,
                 !.agents[agentId].session_count = @ + 1]

\* SELECT * FROM agents WHERE type = 'main' ORDER BY last_active_at DESC
\* LIMIT 1: the rows the statement can yield (any of those that tie)
db_getLastActiveMainAgent(d) ==
  {a \in DOMAIN d.agents :
     /\ d.agents[a].type = "main"
     /\ \A b \in DOMAIN d.agents :
          d.agents[b].type = "main" => d.agents[b].last_active_at <= d.agents[a].last_active_at}

\* the identity tool with action resume: IdentityService.resume, then
\* MemoryService.setCurrentAgent; agent_id = NULL: the last active main agent
resume(agent_id) ==
  LET agents == IF agent_id # NULL THEN {agent_id} \cap DOMAIN db.agents
                ELSE db_getLastActiveMainAgent(db)
  IN /\ IF agents = {}
          THEN /\ last' = Last("resume", TRUE, FALSE, {})
               /\ UNCHANGED <<db, ids, currentAgentId, currentSessionId, identity>>
          ELSE \E agentId \in agents :
                 LET r == db_createSession(db_updateAgentActivity(db, agentId, now),
                                           ids.session, agentId, now)
                 IN /\ db' = r.db
                    /\ ids' = [ids EXCEPT !.session = @ + 1]
                    /\ last' = Last("resume", ~r.ok, r.ok, {})
                    /\ currentAgentId' = agentId
                    /\ currentSessionId' = ids.session
                    /\ identity' = Identity(agentId, ids.session)
     /\ UNCHANGED <<now, embVars>>

\* IdentityService.endCurrentSession: the memory service is not told
endCurrentSession(finalOutcome) ==
  /\ IF identity.sessionId # NULL
       THEN /\ db' = db_endSession(db, identity.sessionId, finalOutcome, now)
            /\ identity' = [identity EXCEPT !.sessionId = NULL]
       ELSE UNCHANGED <<db, identity>>
  /\ last' = Last("endCurrentSession", FALSE, identity.sessionId # NULL, {})
  /\ UNCHANGED <<ids, currentAgentId, currentSessionId, now, embVars>>

\* -------------------------------------------------- MemoryService.trace
DefaultMaxDepth == 3

Directions == {"causes", "effects", "both"}

\* no trace call is in progress
NoTrace ==
  [pc |-> "idle", memory_id |-> NULL, direction |-> "causes", maxDepth |-> 0,
   visited |-> {}, chain |-> <<>>, stack |-> <<>>, todo |-> <<>>]

\* getLinksFrom(memoryId).filter(l => l.link_type === "caused_by"), as the
\* target ids; getLinksTo(...) likewise, as the source ids
causeLinks(d, memoryId) ==
  {r.target_id : r \in {x \in DOMAIN db_getLinksFrom(d, memoryId) : x.link_type = "caused_by"}}

effectLinks(d, memoryId) ==
  {r.source_id : r \in {x \in DOMAIN db_getLinksTo(d, memoryId) : x.link_type = "caused_by"}}

\* the call traverse(memoryId, distance, direction): it returns at once when
\* distance > maxDepth, and otherwise reads the links and starts its loop
traverse(stack, d, memoryId, distance, direction, maxDepth) ==
  IF distance > maxDepth THEN stack
  ELSE Append(stack, [memoryId |-> memoryId, distance |-> distance, direction |-> direction,
                      links |-> IF direction = "causes" THEN causeLinks(d, memoryId)
                                ELSE effectLinks(d, memoryId)])

\* trace(params) up to the definition of traverse; max_depth is given or not
traceStart(memory_id, direction, given, max_depth) ==
  /\ tr.pc = "idle"
  /\ IF ~db_hasMemory(db, memory_id)
       THEN tr' = [NoTrace EXCEPT !.pc = "threw", !.memory_id = memory_id]
       ELSE tr' = [pc |-> "running", memory_id |-> memory_id, direction |-> direction,
                   maxDepth |-> IF given /\ max_depth # 0 THEN max_depth ELSE DefaultMaxDepth,
                   visited |-> {memory_id}, chain |-> <<>>, stack |-> <<>>,
                   todo |-> (IF direction \in {"causes", "both"} THEN <<"causes">> ELSE <<>>)
                            \o (IF direction \in {"effects", "both"} THEN <<"effects">>
                                ELSE <<>>)]
  /\ last' = Last("trace", ~db_hasMemory(db, memory_id), FALSE,
                  IF given THEN {max_depth} ELSE {})
  /\ UNCHANGED <<db, ids, currentAgentId, currentSessionId, identity, now, trigVars, embVars>>

\* the top-level calls traverse(params.memory_id, 1, "causes" / "effects")
traceCall ==
  /\ tr.pc = "running" /\ tr.stack = <<>> /\ tr.todo # <<>>
  /\ tr' = [tr EXCEPT !.todo = Tail(@),
                      !.stack = traverse(@, db, tr.memory_id, 1, Head(tr.todo), tr.maxDepth)]
  /\ UNCHANGED <<db, ids, currentAgentId, currentSessionId, identity, now, last, trigVars, embVars>>

\* the loop without `if (visited.has(targetId)) continue`
traceStep_noVisitedCheck ==
  /\ tr.pc = "running" /\ tr.stack # <<>>
  /\ LET n == Len(tr.stack)
         f == tr.stack[n]
     IN IF f.links = {}
          THEN tr' = [tr EXCEPT !.stack = SubSeq(@, 1, n - 1)]
          ELSE \E targetId \in f.links :
                 LET rest == [tr.stack EXCEPT ![n].links = @ \ {targetId}]
                 IN IF db_hasMemory(db, targetId)
                      THEN tr' = [tr EXCEPT
                             !.visited = @ \cup {targetId},
                             !.chain = Append(@, [id |-> targetId,
                                                  relationship |-> IF f.direction = "causes"
                                                                     THEN "caused_by"
                                                                     ELSE "led_to",
                                                  distance |-> f.distance]),
                             !.stack = traverse(rest, db, targetId, f.distance + 1,
                                                f.direction, tr.maxDepth)]
                    ELSE tr' = [tr EXCEPT !.visited = @ \cup {targetId}, !.stack = rest]
  /\ UNCHANGED <<db, ids, currentAgentId, currentSessionId, identity, now, last, trigVars, embVars>>

\* one iteration of the innermost running loop `for (const link of links)`,
\* or its end; the rows come in the order the SELECT yields them
traceStep ==
  /\ tr.pc = "running" /\ tr.stack # <<>>
  /\ LET n == Len(tr.stack)
         f == tr.stack[n]
     IN IF f.links = {}
          THEN tr' = [tr EXCEPT !.stack = SubSeq(@, 1, n - 1)]
          ELSE \E targetId \in f.links :
                 LET rest == [tr.stack EXCEPT ![n].links = @ \ {targetId}]
                 IN IF targetId \in tr.visited
                      THEN tr' = [tr EXCEPT !.stack = rest]
                    ELSE IF db_hasMemory(db, targetId)
                      THEN tr' = [tr EXCEPT
                             !.visited = @ \cup {targetId},
                             !.chain = Append(@, [id |-> targetId,
                                                  relationship |-> IF f.direction = "causes"
                                                                     THEN "caused_by"
                                                                     ELSE "led_to",
                                                  distance |-> f.distance]),
                             !.stack = traverse(rest, db, targetId, f.distance + 1,
                                                f.direction, tr.maxDepth)]
                    ELSE tr' = [tr EXCEPT !.visited = @ \cup {targetId}, !.stack = rest]
  /\ UNCHANGED <<db, ids, currentAgentId, currentSessionId, identity, now, last, trigVars, embVars>>

\* return { origin, chain, total_nodes }
traceReturn ==
  /\ tr.pc = "running" /\ tr.stack = <<>> /\ tr.todo = <<>>
  /\ tr' = [tr EXCEPT !.pc = "done"]
  /\ UNCHANGED <<db, ids, currentAgentId, currentSessionId, identity, now, last, trigVars, embVars>>

\* ----------------------------------------------------------- TriggerService
MsPerSecond == 1000
MsPerMinute == 60000
MsPerDay == 24 * 60 * 60 * 1000
FetchLimit == 10
ConflictFetchLimit == 20

DEFAULT_CONFIG ==
  [fileTouchEnabled |-> TRUE, fileTouchMinMemories |-> 1, fileTouchMaxAgeDays |-> 30,
   fileTouchIncludeFailures |-> TRUE, fileTouchCooldownSeconds |-> 300,
   rateLimitPerMinute |-> 5, conflictWarningEnabled |-> TRUE]

\* file_path LIKE '%' || filePath || '%'
Contains(s, sub) ==
  \E i \in 0..(Len(s) - Len(sub)) : SubSeq(s, i + 1, i + Len(sub)) = sub

\* ORDER BY m.created_at DESC (rows of equal created_at: lowest id first)
RECURSIVE newestFirst(_, _)
newestFirst(d, S) ==
  IF S = {} THEN <<>>
  ELSE LET m == CHOOSE x \in S : \A y \in S :
                  \/ d.memories[x].created_at > d.memories[y].created_at
                  \/ d.memories[x].created_at = d.memories[y].created_at /\ x <= y
       IN <<m>> \o newestFirst(d, S \ {m})

\* RumDatabase.getMemoriesByFile: ids of the rows, newest first, at most limit
db_getMemoriesByFile(d, filePath, limit) ==
  LET found == {m \in DOMAIN d.memories :
                  \E r \in d.memory_files : r.memory_id = m /\ Contains(r.file_path, filePath)}
      sorted == newestFirst(d, found)
  IN SubSeq(sorted, 1, IF Len(sorted) < limit THEN Len(sorted) ELSE limit)

isOnCooldown(key, cooldownSeconds) ==
  IF key \notin DOMAIN cooldowns \/ cooldowns[key] = 0 THEN FALSE
  ELSE now - cooldowns[key] < cooldownSeconds * MsPerSecond

\* the budget test with > for >=
isRateLimited_offByOne ==
  LET minute == now \div MsPerMinute
      count == IF minute \in DOMAIN notificationCount THEN notificationCount[minute] ELSE 0
  IN count > config.rateLimitPerMinute

isRateLimited ==
  LET minute == now \div MsPerMinute
      count == IF minute \in DOMAIN notificationCount THEN notificationCount[minute] ELSE 0
  IN count >= config.rateLimitPerMinute

\* the map after incrementNotificationCount()
incrementNotificationCount ==
  LET minute == now \div MsPerMinute
      count == IF minute \in DOMAIN notificationCount THEN notificationCount[minute] ELSE 0
      set == (minute :> (count + 1)) @@ notificationCount
  IN [m \in {x \in DOMAIN set : ~(x < minute - 1)} |-> set[m]]

\* the memories checkFileTouch counts: fetched, then filtered by age and outcome
touchMemories(filePath) ==
  LET maxAge == now - config.fileTouchMaxAgeDays * MsPerDay
      memories == db_getMemoriesByFile(db, filePath, FetchLimit)
      recent == SelectSeq(memories, LAMBDA m : db.memories[m].created_at >= maxAge)
  IN IF ~config.fileTouchIncludeFailures
       THEN SelectSeq(recent, LAMBDA m : db.memories[m].outcome_success)
       ELSE recent

\* TriggerService.checkFileTouch; returns a notification (ret) or null
\* checkFileTouch that arms the cooldown before it counts the memories
checkFileTouch_cooldownFirst(filePath) ==
  LET pass == /\ config.fileTouchEnabled
              /\ ~isOnCooldown(filePath, config.fileTouchCooldownSeconds)
              /\ ~isRateLimited
      notify == pass /\ ~(Len(touchMemories(filePath)) < config.fileTouchMinMemories)
  IN /\ cooldowns' = IF pass THEN (filePath :> now) @@ cooldowns ELSE cooldowns
     /\ IF notify
          THEN /\ notificationCount' = incrementNotificationCount
               /\ emitted' = Append(emitted, [at |-> now, file |-> filePath])
          ELSE UNCHANGED <<notificationCount, emitted>>
     /\ last' = Last("checkFileTouch", FALSE, notify, {filePath})
     /\ UNCHANGED <<db, ids, currentAgentId, currentSessionId, identity, now, tr, config, embVars>>

checkFileTouch(filePath) ==
  LET notify == /\ config.fileTouchEnabled
                /\ ~isOnCooldown(filePath, config.fileTouchCooldownSeconds)
                /\ ~isRateLimited
                /\ ~(Len(touchMemories(filePath)) < config.fileTouchMinMemories)
  IN /\ IF notify
          THEN /\ cooldowns' = (filePath :> now) @@ cooldowns
               /\ notificationCount' = incrementNotificationCount
               /\ emitted' = Append(emitted, [at |-> now, file |-> filePath])
          ELSE UNCHANGED <<cooldowns, notificationCount, emitted>>
     /\ last' = Last("checkFileTouch", FALSE, notify, {filePath})
     /\ UNCHANGED <<db, ids, currentAgentId, currentSessionId, identity, now, tr, config, embVars>>

\* String.toLowerCase over the letters the texts use
toLowerCase(s) ==
  [i \in DOMAIN s |-> CASE s[i] = "A" -> "a" [] s[i] = "B" -> "b" [] OTHER -> s[i]]

\* String.split(/\s+/): the pieces between runs of blanks (an empty piece
\* before a leading and after a trailing run)
RECURSIVE split(_, _)
split(s, piece) ==
  IF s = <<>> THEN <<piece>>
  ELSE IF Head(s) = " "
    THEN IF Len(s) > 1 /\ s[2] = " "
           THEN split(Tail(s), piece)
           ELSE <<piece>> \o split(Tail(s), <<>>)
  ELSE split(Tail(s), Append(piece, Head(s)))

\* new Set(s.split(/\s+/).filter(w => w.length > 3))
longWords(s) ==
  LET pieces == split(s, <<>>)
  IN {pieces[i] : i \in {j \in DOMAIN pieces : Len(pieces[j]) > 3}}

SetSizeMax(A, B) == IF Cardinality(A) >= Cardinality(B) THEN Cardinality(A) ELSE Cardinality(B)
SetSizeMin(A, B) == IF Cardinality(A) <= Cardinality(B) THEN Cardinality(A) ELSE Cardinality(B)

\* the overlap divided by the smaller word set
wordOverlap_overSmaller(a, b) ==
  LET wordsA == longWords(a)
      wordsB == longWords(b)
  IN IF wordsA = {} \/ wordsB = {} THEN [num |-> 0, den |-> 1]
     ELSE [num |-> Cardinality(wordsA \cap wordsB), den |-> SetSizeMin(wordsA, wordsB)]

\* TriggerService.wordOverlap, as the fraction num / den
wordOverlap(a, b) ==
  LET wordsA == longWords(a)
      wordsB == longWords(b)
  IN IF wordsA = {} \/ wordsB = {} THEN [num |-> 0, den |-> 1]
     ELSE [num |-> Cardinality(wordsA \cap wordsB), den |-> SetSizeMax(wordsA, wordsB)]

\* ratio > 0.3
Over30Percent(ratio) == 10 * ratio.num > 3 * ratio.den

\* isRelevant with the overlap taken over the smaller word set
isRelevant_overSmaller(intent_goal, intendedAction) ==
  LET goal == toLowerCase(intent_goal)
      action == toLowerCase(intendedAction)
  IN \/ Contains(goal, action)
     \/ Contains(action, goal)
     \/ Over30Percent(wordOverlap_overSmaller(goal, action))

\* whether checkConflict takes a failure with this goal as relevant to the
\* intended action
isRelevant(intent_goal, intendedAction) ==
  LET goal == toLowerCase(intent_goal)
      action == toLowerCase(intendedAction)
  IN \/ Contains(goal, action)
     \/ Contains(action, goal)
     \/ Over30Percent(wordOverlap(goal, action))

\* the body of checkConflict with the cooldown and budget tests of
\* checkFileTouch in front
conflictWarning_sharesCooldown(filePath, intendedAction) ==
  IF ~config.conflictWarningEnabled THEN NULL
  ELSE IF isOnCooldown(filePath, config.fileTouchCooldownSeconds) \/ isRateLimited THEN NULL
  ELSE LET memories == db_getMemoriesByFile(db, filePath, ConflictFetchLimit)
           failures == SelectSeq(memories, LAMBDA m : ~db.memories[m].outcome_success)
           relevant == SelectSeq(failures,
                         LAMBDA m : isRelevant(db.memories[m].intent_goal, intendedAction))
       IN IF relevant = <<>> THEN NULL ELSE relevant[1]

\* the body of checkConflict: the memory it warns about, NULL for no warning
conflictWarning(filePath, intendedAction) ==
  IF ~config.conflictWarningEnabled THEN NULL
  ELSE LET memories == db_getMemoriesByFile(db, filePath, ConflictFetchLimit)
           failures == SelectSeq(memories, LAMBDA m : ~db.memories[m].outcome_success)
           relevant == SelectSeq(failures,
                         LAMBDA m : isRelevant(db.memories[m].intent_goal, intendedAction))
       IN IF relevant = <<>> THEN NULL ELSE relevant[1]

\* TriggerService.checkConflict; returns a warning (ret) or null
checkConflict(filePath, intendedAction) ==
  LET warning == conflictWarning(filePath, intendedAction)
  IN /\ last' = Last("checkConflict", FALSE, warning # NULL,
                     {[file |-> filePath, action |-> intendedAction, memory |-> warning]})
     /\ UNCHANGED <<db, ids, currentAgentId, currentSessionId, identity, now, tr, trigVars, embVars>>

\* time passes between calls
Tick(ms) ==
  /\ now' = now + ms
  /\ UNCHANGED <<db, ids, currentAgentId, currentSessionId, identity, last, tr, trigVars, embVars>>

\* ----------------------------------------------------- MemoryService.recall
\* similarities and confidences are numbers of thousandths
Thousand == 1000
DirectConfidence == 1000
FileConfidence == 950
QueryConfidence == 900
SemanticMinSimilarity == 400
RecallDefaultLimit == 5

Depths == <<"summary", "outcome", "reasoning", "full", "complete">>

\* SELECT * FROM memories WHERE id = ?: the id if the row exists, else NULL
db_getMemory(d, memoryId) == IF memoryId \in DOMAIN d.memories THEN memoryId ELSE NULL

\* UPDATE memories SET access_count = access_count + 1 WHERE id = ?
db_updateMemoryAccess(d, memoryId) ==
  IF memoryId \notin DOMAIN d.memories THEN d
  ELSE [d EXCEPT !.memories[memoryId].access_count = @ + 1]

\* UPDATE sessions SET queries_made = queries_made + 1 WHERE id = ?
db_incrementSessionQueries(d, sessionId) ==
  IF sessionId \notin DOMAIN d.sessions THEN d
  ELSE [d EXCEPT !.sessions[sessionId].queries_made = @ + 1]

Prefix(sorted, limit) == SubSeq(sorted, 1, IF Len(sorted) < limit THEN Len(sorted) ELSE limit)

\* RumDatabase.queryMemories (without file and sort): the conditions it
\* builds, newest first, at most limit rows
db_queryMemories(d, q) ==
  LET found == {m \in DOMAIN d.memories :
                  /\ q.agentId = NULL \/ d.memories[m].agent_id = q.agentId
                  /\ q.intentType = None \/ d.memories[m].intent_type = q.intentType
                  /\ IF q.successOnly THEN d.memories[m].outcome_success
                     ELSE IF q.failuresOnly THEN ~d.memories[m].outcome_success
                     ELSE TRUE
                  /\ q.since = NULL \/ d.memories[m].created_at >= q.since
                  /\ q.before = NULL \/ d.memories[m].created_at <= q.before}
  IN Prefix(newestFirst(d, found), q.limit)

\* limit: params.limit || 200 and params.min_memories || 3 of
\* ChapterService.autoDetectChapters
AutoDetectLimit == 200
DefaultMinMemories == 3

\* `task:${taskType}`
taskKey(taskType) ==
  CASE taskType = "feature" -> "task:feature"
    [] taskType = "bugfix" -> "task:bugfix"
    [] taskType = "refactor" -> "task:refactor"
    [] OTHER -> "task:other"

\* the keys of tagMap one memory is pushed under: each of its tags, or the
\* key of its task type when it has no tag
bucketKeys(d, m) ==
  LET tags == tagArray(d.memories[m].tags)
  IN IF tags = <<>>
       THEN IF d.memories[m].intent_type # None
              THEN <<taskKey(d.memories[m].intent_type)>> ELSE <<>>
       ELSE tags

RECURSIVE allBucketKeys(_, _)
allBucketKeys(d, memories) ==
  IF memories = <<>> THEN <<>>
  ELSE bucketKeys(d, Head(memories)) \o allBucketKeys(d, Tail(memories))

\* tagMap.entries(): the keys in the order of their first insertion, each
\* with the memories pushed under it, in the order of the query
tagMap(d, memories) ==
  LET keys == Dedup(allBucketKeys(d, memories))
  IN [i \in DOMAIN keys |->
        [tag |-> keys[i],
         grouped |-> SelectSeq(memories,
                               LAMBDA m : \E j \in DOMAIN bucketKeys(d, m) :
                                            bucketKeys(d, m)[j] = keys[i])]]

\* for (const [tag, grouped] of tagMap.entries()): the store and the number
\* of chapters created
RECURSIVE createFromBuckets(_, _, _, _, _, _, _)
createFromBuckets(d, chapterId, entries, minMemories, tags, topics, t) ==
  IF entries = <<>> THEN [db |-> d, ok |-> TRUE, created |-> 0]
  ELSE LET e == Head(entries)
       IN IF Len(e.grouped) < minMemories
            THEN createFromBuckets(d, chapterId, Tail(entries), minMemories, tags, topics, t)
            ELSE LET r == createChapterFromMemories(d, chapterId, e.grouped,
                                                    Dedup(tags \o <<e.tag>>),
                                                    Dedup(topics \o <<e.tag>>), "auto", t)
                     rest == createFromBuckets(r.db, chapterId + 1, Tail(entries),
                                               minMemories, tags, topics, t)
                 IN IF r.ok THEN [rest EXCEPT !.created = @ + 1]
                    ELSE [db |-> d, ok |-> FALSE, created |-> 0]

\* the memories autoDetectChapters scans
autoDetectQuery(d, p) ==
  db_queryMemories(d, [agentId |-> NULL, intentType |-> None, successOnly |-> FALSE,
                       failuresOnly |-> FALSE, since |-> p.since, before |-> p.before,
                       limit |-> IF p.limit = NULL THEN AutoDetectLimit ELSE p.limit])

\* autoDetectChapters with a minimum that counts a bucket of one fewer
autoDetected_oneBelow(d, chapterId, p, t) ==
  createFromBuckets(d, chapterId, tagMap(d, autoDetectQuery(d, p)),
                    (IF p.min_memories = NULL THEN DefaultMinMemories ELSE p.min_memories) - 1,
                    p.tags, p.topics, t)

\* ChapterService.autoDetectChapters: the store it leaves and total_created
autoDetected(d, chapterId, p, t) ==
  createFromBuckets(d, chapterId, tagMap(d, autoDetectQuery(d, p)),
                    IF p.min_memories = NULL THEN DefaultMinMemories ELSE p.min_memories,
                    p.tags, p.topics, t)

\* ChapterService.createChapter with auto_detect
autoDetectChapters(p) ==
  LET r == autoDetected(db, ids.chapter, p, now)
  IN /\ db' = r.db
     /\ ids' = [ids EXCEPT !.chapter = @ + r.created]
     /\ last' = Last("autoDetectChapters", ~r.ok, r.ok, {})
     /\ UNCHANGED <<currentAgentId, currentSessionId, identity, now, embVars>>

\* SELECT id, ... FROM memories WHERE embedding IS NOT NULL
db_getMemoriesWithEmbeddings(d) == {m \in DOMAIN d.memories : d.memories[m].embedding # NoEmbedding}

Dot(a, b) == a[1] * b[1] + a[2] * b[2]

\* the largest k in lo..hi with k * k * norms <= square, by bisection
RECURSIVE RootBelow(_, _, _, _)
RootBelow(lo, hi, norms, square) ==
  IF lo = hi THEN lo
  ELSE LET mid == (lo + hi + 1) \div 2
       IN IF mid * mid * norms <= square
            THEN RootBelow(mid, hi, norms, square)
            ELSE RootBelow(lo, mid - 1, norms, square)

\* EmbeddingService.cosineSimilarity of two embeddings without negative
\* components, in thousandths, rounded down
cosineSimilarity(a, b) ==
  LET norms == Dot(a, a) * Dot(b, b)
      dot == Dot(a, b)
  IN IF norms = 0 THEN 0
     ELSE RootBelow(0, Thousand, norms, Thousand * Thousand * dot * dot)

\* sort((a, b) => b.similarity - a.similarity), stable: equal similarities
\* keep the order of the candidates (here: by id)
RECURSIVE bySimilarity(_)
bySimilarity(S) ==
  IF S = {} THEN <<>>
  ELSE LET c == CHOOSE x \in S : \A y \in S :
                  \/ x.similarity > y.similarity
                  \/ x.similarity = y.similarity /\ x.id <= y.id
       IN <<c>> \o bySimilarity(S \ {c})

\* EmbeddingService.findSimilar
findSimilar(d, queryEmbedding, candidates, topK, minSimilarity) ==
  LET scored == {[id |-> c,
                  similarity |-> cosineSimilarity(queryEmbedding, d.memories[c].embedding)] :
                 c \in candidates}
      kept == {c \in scored : c.similarity >= minSimilarity}
  IN Prefix(bySimilarity(kept), topK)

RECURSIVE SeqSum(_)
SeqSum(f) == IF f = <<>> THEN 0 ELSE Head(f) + SeqSum(Tail(f))

\* MemoryService.semanticSearch after the query was embedded (queryResult:
\* what embed returned)
semanticSearch(d, queryResult, limit, successOnly, failuresOnly) ==
  IF queryResult = NoEmbedding THEN [memories |-> <<>>, avgSimilarity |-> 0]
  ELSE LET all == db_getMemoriesWithEmbeddings(d)
           candidates == IF successOnly THEN {c \in all : d.memories[c].outcome_success}
                         ELSE IF failuresOnly
                           THEN {c \in all : ~d.memories[c].outcome_success}
                         ELSE all
           similar == findSimilar(d, queryResult, candidates, limit, SemanticMinSimilarity)
       IN IF similar = <<>> THEN [memories |-> <<>>, avgSimilarity |-> 0]
          ELSE [memories |-> [i \in DOMAIN similar |-> similar[i].id],
                avgSimilarity |->
                  SeqSum([i \in DOMAIN similar |-> similar[i].similarity]) \div Len(similar)]

\* MemoryService.getMemoryLinks: the ids under each label
getMemoryLinks(d, memoryId) ==
  [caused_by |-> {r.target_id : r \in {x \in LinkRows(d) :
                    x.source_id = memoryId /\ x.link_type = "caused_by"}},
   related_to |-> {r.target_id : r \in {x \in LinkRows(d) :
                    x.source_id = memoryId /\ x.link_type = "related_to"}},
   led_to |-> {r.source_id : r \in {x \in LinkRows(d) :
                    x.target_id = memoryId /\ x.link_type = "caused_by"}}]

DepthIndex(depth) == CHOOSE i \in DOMAIN Depths : Depths[i] = depth

\* formatMemory that leaves the learnings out at the depths above outcome
formatMemory_learningsAtOutcomeOnly(d, memoryId, depth, includeLinks) ==
  LET raw == d.memories[memoryId]
      n == DepthIndex(depth)
      base == [id |-> memoryId, agent_id |-> raw.agent_id, created_at |-> raw.created_at,
               confidence |-> Thousand,
               intent |-> [goal |-> raw.intent.goal, task_type |-> raw.intent.task_type],
               outcome |-> [success |-> raw.outcome.success, summary |-> raw.outcome.summary]]
  IN base
     @@ (IF n = 2 /\ raw.outcome.learnings # None THEN [learnings |-> raw.outcome.learnings]
         ELSE EmptyFcn)
     @@ (IF n >= 3 /\ raw.reasoning # None THEN [reasoning |-> raw.reasoning] ELSE EmptyFcn)
     @@ (IF n >= 4 /\ raw.relevant_files # <<>>
           THEN [perception |-> [relevant_files |-> raw.relevant_files]] ELSE EmptyFcn)
     @@ (IF n >= 5 THEN [actions |-> raw.actions] ELSE EmptyFcn)
     @@ (IF n >= 4 /\ includeLinks THEN [links |-> getMemoryLinks(d, memoryId)]
         ELSE EmptyFcn)

\* MemoryService.formatMemory: the fields of the projection at the depth
formatMemory(d, memoryId, depth, includeLinks) ==
  LET raw == d.memories[memoryId]
      n == DepthIndex(depth)
      base == [id |-> memoryId, agent_id |-> raw.agent_id, created_at |-> raw.created_at,
               confidence |-> Thousand,
               intent |-> [goal |-> raw.intent.goal, task_type |-> raw.intent.task_type],
               outcome |-> [success |-> raw.outcome.success, summary |-> raw.outcome.summary]]
  IN base
     @@ (IF n >= 2 /\ raw.outcome.learnings # None THEN [learnings |-> raw.outcome.learnings]
         ELSE EmptyFcn)
     @@ (IF n >= 3 /\ raw.reasoning # None THEN [reasoning |-> raw.reasoning] ELSE EmptyFcn)
     @@ (IF n >= 4 /\ raw.relevant_files # <<>>
           THEN [perception |-> [relevant_files |-> raw.relevant_files]] ELSE EmptyFcn)
     @@ (IF n >= 5 THEN [actions |-> raw.actions] ELSE EmptyFcn)
     @@ (IF n >= 4 /\ includeLinks THEN [links |-> getMemoryLinks(d, memoryId)]
         ELSE EmptyFcn)

RECURSIVE updateAccessAll(_, _)
updateAccessAll(d, memories) ==
  IF memories = <<>> THEN d
  ELSE updateAccessAll(db_updateMemoryAccess(d, Head(memories)), Tail(memories))

Limit(p) == IF p.limit # NULL THEN p.limit ELSE RecallDefaultLimit

\* the strategy recall takes for the params, the service enabled or not
recallStrategy(p, en) ==
  IF p.memory_id # NULL THEN "direct"
  ELSE IF p.file # <<>> THEN "file"
  ELSE IF p.query # <<>> /\ en THEN "semantic"
  ELSE "query"

\* recall that zeroes no confidence
recallConfidence_neverZero(memories, confidence) == confidence

\* confidence: memories.length > 0 ? confidence : 0
recallConfidence(memories, confidence) == IF Len(memories) > 0 THEN confidence ELSE 0

\* recall whose file lookup falls through to the structured query when it
\* finds nothing
recallFound_fileFallsThrough(d, p, strategy, e) ==
  CASE strategy = "direct" ->
         [memories |-> IF db_getMemory(d, p.memory_id) # NULL THEN <<p.memory_id>> ELSE <<>>,
          confidence |-> DirectConfidence]
    [] strategy = "file" ->
         IF db_getMemoriesByFile(d, p.file, Limit(p)) = <<>>
           THEN [memories |-> db_queryMemories(d,
                    [agentId |-> p.agent_id, intentType |-> p.task_type,
                     successOnly |-> p.success_only, failuresOnly |-> p.failures_only,
                     since |-> p.since, before |-> p.before, tags |-> p.tags,
                     limit |-> Limit(p)]),
                 confidence |-> FileConfidence]
           ELSE [memories |-> db_getMemoriesByFile(d, p.file, Limit(p)),
                 confidence |-> FileConfidence]
    [] strategy = "semantic" ->
         LET r == semanticSearch(d, e.result, Limit(p), p.success_only, p.failures_only)
         IN [memories |-> r.memories, confidence |-> r.avgSimilarity]
    [] OTHER ->
         [memories |-> db_queryMemories(d,
            [agentId |-> p.agent_id, intentType |-> p.task_type,
             successOnly |-> p.success_only, failuresOnly |-> p.failures_only,
             since |-> p.since, before |-> p.before, tags |-> p.tags,
             limit |-> Limit(p)]),
          confidence |-> QueryConfidence]

\* what the strategy finds (ids, in order) and the confidence it sets; e is
\* the embed call of the semantic strategy
recallFound(d, p, strategy, e) ==
  CASE strategy = "direct" ->
         [memories |-> IF db_getMemory(d, p.memory_id) # NULL THEN <<p.memory_id>> ELSE <<>>,
          confidence |-> DirectConfidence]
    [] strategy = "file" ->
         [memories |-> db_getMemoriesByFile(d, p.file, Limit(p)),
          confidence |-> FileConfidence]
    [] strategy = "semantic" ->
         LET r == semanticSearch(d, e.result, Limit(p), p.success_only, p.failures_only)
         IN [memories |-> r.memories, confidence |-> r.avgSimilarity]
    [] OTHER ->
         [memories |-> db_queryMemories(d,
            [agentId |-> p.agent_id, intentType |-> p.task_type,
             successOnly |-> p.success_only, failuresOnly |-> p.failures_only,
             since |-> p.since, before |-> p.before, tags |-> p.tags,
             limit |-> Limit(p)]),
          confidence |-> QueryConfidence]

\* MemoryService.recall: the result is kept in last.ret, the params in
\* last.had
recall(p) ==
  \E answer \in Answers :
    LET strategy == recallStrategy(p, enabled)
        e == IF strategy = "semantic" THEN embed(enabled, answer)
             ELSE [called |-> FALSE, contacted |-> FALSE, result |-> NoEmbedding,
                   enabled |-> enabled]
        found == recallFound(db, p, strategy, e)
        d1 == IF strategy = "direct" /\ found.memories # <<>>
                THEN db_updateMemoryAccess(db, p.memory_id) ELSE db
        d2 == IF currentSessionId # NULL
                THEN db_incrementSessionQueries(d1, currentSessionId) ELSE d1
        retrieved == [i \in DOMAIN found.memories |->
                        formatMemory(d2, found.memories[i], p.depth, p.include_links)]
    IN /\ db' = updateAccessAll(d2, found.memories)
       /\ last' = Last("recall", FALSE,
                       [memories |-> retrieved,
                        query_strategy_used |-> strategy,
                        confidence |-> recallConfidence(found.memories, found.confidence),
                        total_matches |-> Len(found.memories)],
                       {p})
       /\ enabled' = e.enabled
       /\ embedCall' = EmbedCallOf(e)
       /\ UNCHANGED <<ids, currentAgentId, currentSessionId, identity, now, tr, trigVars,
                      awaiting>>

\* EmbeddingService.embed called on its own
embedText ==
  \E answer \in Answers :
    LET e == embed(enabled, answer)
    IN /\ last' = Last("embed", FALSE, e.result # NoEmbedding, {})
       /\ enabled' = e.enabled
       /\ embedCall' = EmbedCallOf(e)
       /\ UNCHANGED <<db, ids, currentAgentId, currentSessionId, identity, now, tr, trigVars,
                      awaiting>>

\* ------------------------------------------------------------ specification
Init ==
  /\ db = EmptyDb
  /\ ids = [mem |-> 1, chapter |-> 1, wisdom |-> 1, agent |-> 1, session |-> 1]
  /\ currentAgentId = NULL
  /\ currentSessionId = NULL
  /\ identity = NoIdentity
  /\ now = 1
  /\ last = Last("init", FALSE, FALSE, {})
  /\ tr = NoTrace
  /\ config = DEFAULT_CONFIG
  /\ cooldowns = EmptyFcn
  /\ notificationCount = EmptyFcn
  /\ emitted = <<>>
  /\ enabled = FALSE
  /\ embedCall = NoEmbedCall
  /\ awaiting = NoneAwaiting

\* the effect of the step stays within the bounds of the run
Bounded ==
  /\ ids'.mem <= MaxMem + 1
  /\ ids'.chapter <= MaxChapters + 1
  /\ ids'.wisdom <= MaxWisdom + 1
  /\ ids'.agent <= MaxAgents + 1
  /\ LinkCount(db') <= MaxLinks

\* a call made while no trace runs, within the bounds of the run
Call(A) == A /\ Bounded /\ UNCHANGED <<tr, trigVars>>

\* every operation that writes to the store, with few link types
Next ==
  \/ Call(register("main", NULL))
  \/ Call(\E p \in StoreParams({ContentFiles},
                               {NoLinks} \cup {[NoLinks EXCEPT !.caused_by = <<t>>] :
                                                  t \in KnownMems},
                               {NULL}) : store(p))
  \/ Call(\E m \in KnownMems, q \in {ActionsPatch} \cup CausePatches(KnownMems) :
           updateMemory(m, q))
  \/ Call(\E s, t \in KnownMems : link(s, t, "caused_by"))
  \/ Call(\E m \in KnownMems : deleteMemory(m))
  \/ Call(\E l \in IdLists(KnownMems) : createChapter(l, <<>>, <<>>))
  \/ Call(\E c \in ChapterRefs : deleteChapter(c))
  \/ Call(\E l \in IdLists(ChapterRefs), n \in {NULL, 1} : synthesize(l, n))
  \/ Call(\E w \in WisdomIds : deleteWisdom(w))

Spec == Init /\ [][Next]_vars

\* the memory service alone, with every link type and every link parameter
LinkNext ==
  \/ Call(register("main", NULL))
  \/ Call(\E p \in StoreParams({ContentFiles}, StoreLinks(KnownMems), {NULL}) : store(p))
  \/ Call(\E m \in KnownMems, q \in CausePatches(KnownMems) \cup LinkPatches(KnownMems) :
           updateMemory(m, q))
  \/ Call(\E s, t \in KnownMems, ty \in LinkTypes : link(s, t, ty))
  \/ Call(\E m \in KnownMems : deleteMemory(m))

LinkSpec == Init /\ [][LinkNext]_vars

\* trace over graphs that link builds among stored memories
TraceMems == 3       \* memories stored before the links are made
MaxTraceLinks == 3   \* rows of memory_links in TraceSpec
MaxDepthArg == 2     \* largest max_depth a caller passes

PlainParams == WithContent(ContentPlain, NoLinks, NULL)

\* the store after register and n calls of store(PlainParams)
RECURSIVE StoredDb(_)
StoredDb(n) ==
  IF n = 0
    THEN db_createSession(db_createAgent(EmptyDb, 1, "main", NULL, 1).db, 1, 1, 1).db
    ELSE storeResult(StoredDb(n - 1), n, 1, 1, PlainParams, NoEmbedding, 1).db

TraceInit ==
  /\ db = StoredDb(TraceMems)
  /\ ids = [mem |-> TraceMems + 1, chapter |-> 1, wisdom |-> 1, agent |-> 2, session |-> 2]
  /\ currentAgentId = 1
  /\ currentSessionId = 1
  /\ identity = Identity(1, 1)
  /\ now = 1
  /\ last = Last("init", FALSE, FALSE, {})
  /\ tr = NoTrace
  /\ config = DEFAULT_CONFIG
  /\ cooldowns = EmptyFcn
  /\ notificationCount = EmptyFcn
  /\ emitted = <<>>
  /\ enabled = FALSE
  /\ embedCall = NoEmbedCall
  /\ awaiting = NoneAwaiting

TraceNext ==
  \/ /\ tr.pc = "idle"
     /\ \E s, t \in 1..TraceMems, ty \in {"caused_by", "related_to"} : link(s, t, ty)
     /\ LinkCount(db') <= MaxTraceLinks
     /\ UNCHANGED <<tr, trigVars>>
  \/ \E m \in 1..(TraceMems + 1), dir \in Directions, given \in BOOLEAN,
        max_depth \in 0..MaxDepthArg : traceStart(m, dir, given, max_depth)
  \/ traceCall
  \/ traceStep
  \/ traceReturn

TraceSpec == TraceInit /\ [][TraceNext]_vars

\* a call, once made, runs on: nothing else runs in the process
TraceFairSpec == TraceSpec /\ WF_vars(traceCall \/ traceStep \/ traceReturn)

\* the trigger service over a store that no longer changes, as time passes
MaxTicks == 8          \* clock steps in one run of TriggerSpec
TickMs == 20 * MsPerSecond
Now0 == MsPerDay - 4 * TickMs

FailureFileA == [ContentFiles EXCEPT !.relevant_files = <<PathA>>]
SuccessFileA == [ContentPlain EXCEPT !.relevant_files = <<PathA>>]
SuccessFileB == [ContentPlain EXCEPT !.relevant_files = <<PathB>>]

\* the store after register and one store call per entry of contents, the
\* n-th made at time n
RECURSIVE StoredContents(_)
StoredContents(contents) ==
  IF contents = <<>>
    THEN db_createSession(db_createAgent(EmptyDb, 1, "main", NULL, 1).db, 1, 1, 1).db
    ELSE LET n == Len(contents)
             c == contents[n]
         IN storeResult(StoredContents(SubSeq(contents, 1, n - 1)), n, 1, 1,
                        WithContent(c, NoLinks, NULL), NoEmbedding, n).db

\* a failure naming a and ab and a success naming b; and one success naming a
\* followed by more failures naming a than one fetch returns
TriggerContents ==
  { <<ContentFiles, SuccessFileB>>,
    <<SuccessFileA>> \o [i \in 1..FetchLimit |-> FailureFileA] }

TriggerConfigs ==
  {[DEFAULT_CONFIG EXCEPT !.fileTouchEnabled = e, !.fileTouchMinMemories = n,
                          !.fileTouchMaxAgeDays = 1, !.fileTouchIncludeFailures = f,
                          !.fileTouchCooldownSeconds = 40, !.rateLimitPerMinute = r] :
     e \in BOOLEAN, n \in {1, 2}, f \in BOOLEAN, r \in {1, 2}}

\* intended actions: one word of the goal and a foreign one; two words of
\* the goal in another order and case; no long word; one word of the goal;
\* the empty text
ConflictActions ==
  { Text(<<Word("a"), Word("e")>>),
    Text(<<Word("b"), Word("A")>>),
    GoalZ,
    Word("b"),
    <<>> }

TriggerInit ==
  /\ \E contents \in TriggerContents :
       /\ db = StoredContents(contents)
       /\ ids = [mem |-> Len(contents) + 1, chapter |-> 1, wisdom |-> 1,
                 agent |-> 2, session |-> 2]
  /\ currentAgentId = 1
  /\ currentSessionId = 1
  /\ identity = Identity(1, 1)
  /\ now = Now0
  /\ last = Last("init", FALSE, FALSE, {})
  /\ tr = NoTrace
  /\ config \in TriggerConfigs
  /\ cooldowns = EmptyFcn
  /\ notificationCount = EmptyFcn
  /\ emitted = <<>>
  /\ enabled = FALSE
  /\ embedCall = NoEmbedCall
  /\ awaiting = NoneAwaiting

TriggerNext ==
  \/ \E filePath \in {PathA, PathAB, PathB} : checkFileTouch(filePath)
  \/ now + TickMs <= Now0 + MaxTicks * TickMs /\ Tick(TickMs)

TriggerSpec == TriggerInit /\ [][TriggerNext]_vars

\* checkConflict next to checkFileTouch, conflict warnings enabled or not
MaxConflictTicks == 3  \* clock steps in one run of ConflictSpec

ConflictConfigs ==
  {[DEFAULT_CONFIG EXCEPT !.fileTouchMaxAgeDays = 1, !.fileTouchCooldownSeconds = 40,
                          !.rateLimitPerMinute = 1, !.conflictWarningEnabled = c] :
     c \in BOOLEAN}

ConflictInit ==
  /\ \E contents \in TriggerContents :
       /\ db = StoredContents(contents)
       /\ ids = [mem |-> Len(contents) + 1, chapter |-> 1, wisdom |-> 1,
                 agent |-> 2, session |-> 2]
  /\ currentAgentId = 1
  /\ currentSessionId = 1
  /\ identity = Identity(1, 1)
  /\ now = Now0
  /\ last = Last("init", FALSE, FALSE, {})
  /\ tr = NoTrace
  /\ config \in ConflictConfigs
  /\ cooldowns = EmptyFcn
  /\ notificationCount = EmptyFcn
  /\ emitted = <<>>
  /\ enabled = FALSE
  /\ embedCall = NoEmbedCall
  /\ awaiting = NoneAwaiting

ConflictNext ==
  \/ \E filePath \in {PathA, PathAB, PathB} : checkFileTouch(filePath)
  \/ \E filePath \in {PathA, PathAB, PathB}, intendedAction \in ConflictActions :
       checkConflict(filePath, intendedAction)
  \/ now + TickMs <= Now0 + MaxConflictTicks * TickMs /\ Tick(TickMs)

ConflictSpec == ConflictInit /\ [][ConflictNext]_vars

\* recall over a fixed store, the embedding service enabled or not
MaxRecalls == 1        \* recall calls in one run of RecallSpec

\* what was stored: a failure naming a and ab, tagged t1; a success naming a,
\* caused by the first; a success naming nothing, stored without embedding
RecallContents ==
  << [content |-> ContentFiles, embedding |-> <<1, 0>>, links |-> NoLinks],
     [content |-> SuccessFileA, embedding |-> <<1, 1>>,
      links |-> [NoLinks EXCEPT !.caused_by = <<1>>]],
     [content |-> ContentPlain, embedding |-> NoEmbedding, links |-> NoLinks] >>

\* the store after register and one store call per entry, the n-th at time n
RECURSIVE RecallDb(_)
RecallDb(n) ==
  IF n = 0
    THEN db_createSession(db_createAgent(EmptyDb, 1, "main", NULL, 1).db, 1, 1, 1).db
    ELSE storeResult(RecallDb(n - 1), n, 1, 1,
                     WithContent(RecallContents[n].content, RecallContents[n].links, NULL),
                     RecallContents[n].embedding, n).db

PathC == <<"c">>

\* an id that names no memory of the store
UnknownMem == Len(RecallContents) + 1

RecallParams ==
  {[memory_id |-> m, file |-> f, query |-> q, agent_id |-> NULL, task_type |-> t,
    success_only |-> o = "success", failures_only |-> o = "failure",
    since |-> since, before |-> NULL, tags |-> tags, limit |-> limit,
    depth |-> Depths[n], include_links |-> il] :
     m \in {NULL, 2, UnknownMem}, f \in {<<>>, PathA, PathC}, q \in {<<>>, GoalZ},
     t \in {None, "bugfix"}, o \in {"any", "success", "failure"}, since \in {NULL, 2},
     tags \in {{}, {"t1"}}, limit \in {NULL, 1}, n \in {1, 4}, il \in BOOLEAN}

RecallInit ==
  /\ db = RecallDb(Len(RecallContents))
  /\ ids = [mem |-> Len(RecallContents) + 1, chapter |-> 1, wisdom |-> 1,
            agent |-> 2, session |-> 2]
  /\ currentAgentId = 1
  /\ currentSessionId = 1
  /\ identity = Identity(1, 1)
  /\ now = Len(RecallContents) + 1
  /\ last = Last("init", FALSE, FALSE, {})
  /\ tr = NoTrace
  /\ config = DEFAULT_CONFIG
  /\ cooldowns = EmptyFcn
  /\ notificationCount = EmptyFcn
  /\ emitted = <<>>
  /\ enabled \in BOOLEAN
  /\ embedCall = NoEmbedCall
  /\ awaiting = NoneAwaiting

RecallNext ==
  \E p \in RecallParams :
    /\ db.sessions[1].queries_made < MaxRecalls
    /\ recall(p)

RecallSpec == RecallInit /\ [][RecallNext]_vars

\* store, updateMemory, recall and embed against a backend that can fail
MaxEmbedMems == 2      \* memories stored in one run of EmbedSpec
MaxEmbedRecalls == 2   \* recall calls in one run of EmbedSpec

QueryParams ==
  [memory_id |-> NULL, file |-> <<>>, query |-> GoalZ, agent_id |-> NULL,
   task_type |-> None, success_only |-> FALSE, failures_only |-> FALSE,
   since |-> NULL, before |-> NULL, tags |-> {}, limit |-> NULL,
   depth |-> "summary", include_links |-> FALSE]

EmbedInit ==
  /\ db = RecallDb(0)
  /\ ids = [mem |-> 1, chapter |-> 1, wisdom |-> 1, agent |-> 2, session |-> 2]
  /\ currentAgentId = 1
  /\ currentSessionId = 1
  /\ identity = Identity(1, 1)
  /\ now = 1
  /\ last = Last("init", FALSE, FALSE, {})
  /\ tr = NoTrace
  /\ config = DEFAULT_CONFIG
  /\ cooldowns = EmptyFcn
  /\ notificationCount = EmptyFcn
  /\ emitted = <<>>
  /\ enabled \in BOOLEAN
  /\ embedCall = NoEmbedCall
  /\ awaiting = NoneAwaiting

EmbedNext ==
  \/ /\ ids.mem <= MaxEmbedMems
     /\ store(PlainParams)
     /\ UNCHANGED <<tr, trigVars>>
  \/ /\ \E m \in 1..MaxEmbedMems : updateMemory(m, IntentPatch)
     /\ UNCHANGED <<tr, trigVars>>
  \/ /\ db.sessions[1].queries_made < MaxEmbedRecalls
     /\ recall(QueryParams)
  \/ embedText

EmbedSpec == EmbedInit /\ [][EmbedNext]_vars

\* the identity service next to the memory service: agents register and
\* resume, sessions end, memories are stored for the current or another agent
MaxIdAgents == 2       \* agents registered in one run of IdentitySpec
MaxSessions == 2       \* sessions created in one run of IdentitySpec
MaxIdMems == 1         \* memories stored in one run of IdentitySpec
MaxIdQueries == 1      \* recall calls counted for one session in IdentitySpec
MaxIdTicks == 1        \* clock steps in one run of IdentitySpec

\* what a caller can pass as an agent id: NoAgent names no agent, ever
NoAgent == MaxIdAgents + 1

\* a main agent; subagents without parent, of the first agent, of no agent
RegisterParams ==
  {[type |-> "main", parent_id |-> NULL], [type |-> "subagent", parent_id |-> NULL],
   [type |-> "subagent", parent_id |-> 1], [type |-> "subagent", parent_id |-> NoAgent]}

FailurePlain == [ContentPlain EXCEPT !.success = FALSE]

IdentityNext ==
  \/ /\ \E r \in RegisterParams : register(r.type, r.parent_id)
     /\ ids'.agent <= MaxIdAgents + 1 /\ ids'.session <= MaxSessions + 1
     /\ UNCHANGED <<tr, trigVars>>
  \/ /\ \E agent_id \in {NULL, 1, NoAgent} : resume(agent_id)
     /\ ids'.session <= MaxSessions + 1
     /\ UNCHANGED <<tr, trigVars>>
  \/ /\ endCurrentSession("done")
     /\ UNCHANGED <<tr, trigVars>>
  \/ /\ \E p \in StoreParams({ContentPlain, FailurePlain}, {NoLinks}, {NULL, 1, NoAgent}) :
          store(p)
     /\ ids'.mem <= MaxIdMems + 1
     /\ UNCHANGED <<tr, trigVars>>
  \/ /\ currentSessionId # NULL
     /\ db.sessions[currentSessionId].queries_made < MaxIdQueries
     /\ recall(QueryParams)
  \/ now <= MaxIdTicks /\ Tick(1)

IdentitySpec == Init /\ [][IdentityNext]_vars

\* updateMemory with patches of every layer, over memories that store wrote
MaxUpdMems == 1        \* memories stored in one run of UpdateSpec

\* patches of one field of a layer, of a whole array, of nothing, and of
\* several layers at once
UpdatePatches ==
  { NoPatch, IntentPatch, OutcomePatch, ActionsPatch, PerceptionPatch,
    [NoPatch EXCEPT !.given = {"intent"}, !.intent = [task_type |-> "refactor"]],
    [NoPatch EXCEPT !.given = {"outcome"}, !.outcome = [summary |-> "redone"]],
    [NoPatch EXCEPT !.given = {"outcome"}, !.outcome = [learnings |-> "m"]],
    [NoPatch EXCEPT !.given = {"perception"}],
    [NoPatch EXCEPT !.given = {"reasoning"}, !.reasoning = [approach_chosen |-> "q"]],
    [NoPatch EXCEPT !.given = {"actions"}],
    [NoPatch EXCEPT !.given = {"tags"}, !.tags = {"t2"}],
    [NoPatch EXCEPT !.given = {"importance"}],
    [NoPatch EXCEPT !.given = {"intent", "outcome", "tags", "caused_by"},
                    !.intent = [goal |-> Word("e"), task_type |-> "refactor"],
                    !.outcome = [success |-> TRUE, summary |-> "redone"],
                    !.caused_by = <<NoMem>>] }

UpdateInit ==
  /\ db = RecallDb(0)
  /\ ids = [mem |-> 1, chapter |-> 1, wisdom |-> 1, agent |-> 2, session |-> 2]
  /\ currentAgentId = 1
  /\ currentSessionId = 1
  /\ identity = Identity(1, 1)
  /\ now = 1
  /\ last = Last("init", FALSE, FALSE, {})
  /\ tr = NoTrace
  /\ config = DEFAULT_CONFIG
  /\ cooldowns = EmptyFcn
  /\ notificationCount = EmptyFcn
  /\ emitted = <<>>
  /\ enabled = FALSE
  /\ embedCall = NoEmbedCall
  /\ awaiting = NoneAwaiting

UpdateNext ==
  \/ /\ ids.mem <= MaxUpdMems
     /\ \E p \in StoreParams({ContentPlain, ContentFiles},
                             {NoLinks, [NoLinks EXCEPT !.related_to = <<NoMem>>]}, {NULL}) :
          store(p)
     /\ UNCHANGED <<tr, trigVars>>
  \/ /\ \E m \in 1..(MaxUpdMems + 1), q \in UpdatePatches : updateMemory(m, q)
     /\ UNCHANGED <<tr, trigVars>>

UpdateSpec == UpdateInit /\ [][UpdateNext]_vars

\* updateMemory with patches of links, over links that link() made between
\* stored memories
PatchMems == 2         \* memories stored before the run of PatchLinkSpec
MaxPatchLinks == 2     \* rows of memory_links in PatchLinkSpec

\* patches of every link type, with known and unknown targets, the memory
\* itself among them
LinkPatchSet ==
  CausePatches(1..(PatchMems + 1)) \cup LinkPatches(1..(PatchMems + 1))
  \cup {[NoPatch EXCEPT !.given = {"led_to"}, !.led_to = <<t>>] : t \in 1..PatchMems}

PatchLinkInit ==
  /\ db = StoredDb(PatchMems)
  /\ ids = [mem |-> PatchMems + 1, chapter |-> 1, wisdom |-> 1, agent |-> 2, session |-> 2]
  /\ currentAgentId = 1
  /\ currentSessionId = 1
  /\ identity = Identity(1, 1)
  /\ now = 1
  /\ last = Last("init", FALSE, FALSE, {})
  /\ tr = NoTrace
  /\ config = DEFAULT_CONFIG
  /\ cooldowns = EmptyFcn
  /\ notificationCount = EmptyFcn
  /\ emitted = <<>>
  /\ enabled = FALSE
  /\ embedCall = NoEmbedCall
  /\ awaiting = NoneAwaiting

PatchLinkNext ==
  \/ /\ \E s, t \in 1..PatchMems, ty \in {"caused_by", "related_to", "led_to"} : link(s, t, ty)
     /\ LinkCount(db') <= MaxPatchLinks
     /\ UNCHANGED <<tr, trigVars>>
  \/ /\ \E m \in 1..(PatchMems + 1), q \in LinkPatchSet : updateMemory(m, q)
     /\ LinkCount(db') <= MaxPatchLinks
     /\ UNCHANGED <<tr, trigVars>>

PatchLinkSpec == PatchLinkInit /\ [][PatchLinkNext]_vars

\* chapters made of tagged and untagged memories, and their synthesis
MaxSynChapters == 2    \* chapters created in SynthesisSpec
MaxSynWisdom == 1      \* wisdom rows created in SynthesisSpec

\* a memory with tag t1, one without tags, one with tags t1 and t2
SynthContents ==
  <<ContentFiles, ContentPlain, [ContentPlain EXCEPT !.tags = {"t1", "t2"}]>>

\* an id that names no chapter of SynthesisSpec
NoSynChapter == MaxSynChapters + 1

\* memory_ids of createChapter: a tagged memory, an untagged one with a
\* memory of two tags, an unknown one
SynthMemoryLists == {<<1>>, <<2, 3>>, <<Len(SynthContents) + 1>>}

\* tags and topics of createChapter
SynthLabels == {[tags |-> <<>>, topics |-> <<>>], [tags |-> <<"t3">>, topics |-> <<>>],
                [tags |-> <<>>, topics |-> <<"t3">>]}

\* chapter_ids of synthesize: none (the listing), one, one twice, two, two
\* with an unknown one between them
SynthChapterLists == {<<>>, <<1>>, <<1, 1>>, <<1, 2>>, <<1, NoSynChapter, 2>>}

\* min_chapters of synthesize: not given, and up to more than there are
\* chapters
SynthMinimums == {NULL} \cup (1..(MaxSynChapters + 1))

SynthInit ==
  /\ db = StoredContents(SynthContents)
  /\ ids = [mem |-> Len(SynthContents) + 1, chapter |-> 1, wisdom |-> 1, agent |-> 2,
            session |-> 2]
  /\ currentAgentId = 1
  /\ currentSessionId = 1
  /\ identity = Identity(1, 1)
  /\ now = Len(SynthContents) + 1
  /\ last = Last("init", FALSE, FALSE, {})
  /\ tr = NoTrace
  /\ config = DEFAULT_CONFIG
  /\ cooldowns = EmptyFcn
  /\ notificationCount = EmptyFcn
  /\ emitted = <<>>
  /\ enabled = FALSE
  /\ embedCall = NoEmbedCall
  /\ awaiting = NoneAwaiting

SynthNext ==
  \/ /\ \E l \in SynthMemoryLists, p \in SynthLabels : createChapter(l, p.tags, p.topics)
     /\ ids'.chapter <= MaxSynChapters + 1
     /\ UNCHANGED <<tr, trigVars>>
  \/ /\ \E l \in SynthChapterLists, n \in SynthMinimums : synthesize(l, n)
     /\ ids'.wisdom <= MaxSynWisdom + 1
     /\ UNCHANGED <<tr, trigVars>>

SynthesisSpec == SynthInit /\ [][SynthNext]_vars

\* chapters and wisdom created and deleted over a fixed set of memories
MaxDelChapters == 2    \* chapters created in DeleteSpec
MaxDelWisdom == 2      \* wisdom rows created in DeleteSpec

DeleteNext ==
  \/ /\ \E l \in {<<1>>, <<2, 3>>} : createChapter(l, <<>>, <<>>)
     /\ ids'.chapter <= MaxDelChapters + 1
     /\ UNCHANGED <<tr, trigVars>>
  \/ /\ \E l \in {<<>>, <<1>>}, n \in {NULL, 1} : synthesize(l, n)
     /\ ids'.wisdom <= MaxDelWisdom + 1
     /\ UNCHANGED <<tr, trigVars>>
  \/ /\ \E c \in 1..(MaxDelChapters + 1) : deleteChapter(c)
     /\ UNCHANGED <<tr, trigVars>>
  \/ /\ \E w \in 1..(MaxDelWisdom + 1) : deleteWisdom(w)
     /\ UNCHANGED <<tr, trigVars>>

DeleteSpec == SynthInit /\ [][DeleteNext]_vars

\* store and updateMemory calls that are suspended at their await while
\* other requests are handled
MaxAwAgents == 2       \* agents of AwaitSpec
MaxAwSessions == 3     \* sessions of AwaitSpec
MaxAwMems == 2         \* memories of AwaitSpec
MaxAwaiting == 2       \* calls suspended at the same time in AwaitSpec

\* patches of different fields of the outcome layer
SummaryPatch == [NoPatch EXCEPT !.given = {"outcome"}, !.outcome = [summary |-> "redone"]]
LearningsPatch == [NoPatch EXCEPT !.given = {"outcome"}, !.outcome = [learnings |-> "m"]]

\* the backend of AwaitSpec answers with an embedding or fails
AwaitAnswers == {<<1, 0>>, Fail}

AwaitInit ==
  /\ db = StoredDb(1)
  /\ ids = [mem |-> 2, chapter |-> 1, wisdom |-> 1, agent |-> 2, session |-> 2]
  /\ currentAgentId = 1
  /\ currentSessionId = 1
  /\ identity = Identity(1, 1)
  /\ now = 2
  /\ last = Last("init", FALSE, FALSE, {})
  /\ tr = NoTrace
  /\ config = DEFAULT_CONFIG
  /\ cooldowns = EmptyFcn
  /\ notificationCount = EmptyFcn
  /\ emitted = <<>>
  /\ enabled = TRUE
  /\ embedCall = NoEmbedCall
  /\ awaiting = NoneAwaiting

AwaitNext ==
  \/ /\ register("main", NULL)
     /\ ids'.agent <= MaxAwAgents + 1
     /\ ids'.session <= MaxAwSessions + 1
     /\ UNCHANGED <<tr, trigVars>>
  \/ /\ resume(1)
     /\ ids'.session <= MaxAwSessions + 1
     /\ UNCHANGED <<tr, trigVars>>
  \/ /\ \E p \in StoreParams({ContentPlain}, {NoLinks}, {NULL, 1}) : storeCall(p)
     /\ ids'.mem <= MaxAwMems + 1
     /\ Cardinality(awaiting'.store) + Cardinality(awaiting'.update) <= MaxAwaiting
     /\ UNCHANGED <<tr, trigVars>>
  \/ /\ \E c \in awaiting.store, answer \in AwaitAnswers : storeResume(c, answer)
     /\ UNCHANGED <<tr, trigVars>>
  \/ /\ \E q \in {SummaryPatch, LearningsPatch} : updateCall(1, q)
     /\ Cardinality(awaiting'.store) + Cardinality(awaiting'.update) <= MaxAwaiting
     /\ UNCHANGED <<tr, trigVars>>
  \/ /\ \E c \in awaiting.update, answer \in AwaitAnswers : updateResume(c, answer)
     /\ UNCHANGED <<tr, trigVars>>

AwaitSpec == AwaitInit /\ [][AwaitNext]_vars

\* chapters created from given lists and by auto-detection over tagged and
\* untagged memories
MaxAutoChapters == 3   \* chapters created in ChapterSpec

\* a memory with tag t1, two with tags t1 and t2, one without tags: a bucket
\* of three, one of two and one of one
ChapterContents ==
  <<ContentFiles, [ContentPlain EXCEPT !.tags = {"t1", "t2"}],
    [ContentPlain EXCEPT !.tags = {"t1", "t2"}], ContentPlain>>

\* memory_ids of createChapter: two memories newest first, one memory twice
\* before another, one memory twice, an unknown one
ChapterMemoryLists == {<<2, 1>>, <<1, 1, 3>>, <<4, 4>>, <<Len(ChapterContents) + 1>>}

\* the parameters of createChapter with auto_detect
NoAutoDetectParams ==
  [since |-> NULL, before |-> NULL, limit |-> NULL, min_memories |-> NULL, tags |-> <<>>,
   topics |-> <<>>]

\* min_memories not given and from one to more than any bucket holds, over
\* the whole store; the memories since the second; the newest three; tags
\* for the chapters
AutoDetectParams ==
  {NoAutoDetectParams,
   [NoAutoDetectParams EXCEPT !.min_memories = 1],
   [NoAutoDetectParams EXCEPT !.min_memories = 2],
   [NoAutoDetectParams EXCEPT !.min_memories = 4],
   [NoAutoDetectParams EXCEPT !.min_memories = 2, !.since = 2],
   [NoAutoDetectParams EXCEPT !.min_memories = 1, !.limit = 3],
   [NoAutoDetectParams EXCEPT !.tags = <<"t3">>]}

ChapterInit ==
  /\ db = StoredContents(ChapterContents)
  /\ ids = [mem |-> Len(ChapterContents) + 1, chapter |-> 1, wisdom |-> 1, agent |-> 2,
            session |-> 2]
  /\ currentAgentId = 1
  /\ currentSessionId = 1
  /\ identity = Identity(1, 1)
  /\ now = Len(ChapterContents) + 1
  /\ last = Last("init", FALSE, FALSE, {})
  /\ tr = NoTrace
  /\ config = DEFAULT_CONFIG
  /\ cooldowns = EmptyFcn
  /\ notificationCount = EmptyFcn
  /\ emitted = <<>>
  /\ enabled = FALSE
  /\ embedCall = NoEmbedCall
  /\ awaiting = NoneAwaiting

ChapterNext ==
  \/ /\ \E l \in ChapterMemoryLists : createChapter(l, <<>>, <<>>)
     /\ ids'.chapter <= MaxAutoChapters + 1
     /\ UNCHANGED <<tr, trigVars>>
  \/ /\ \E p \in AutoDetectParams : autoDetectChapters(p)
     /\ ids'.chapter <= MaxAutoChapters + 1
     /\ UNCHANGED <<tr, trigVars>>
  \/ /\ \E c \in 1..MaxAutoChapters : deleteChapter(c)
     /\ UNCHANGED <<tr, trigVars>>

ChapterSpec == ChapterInit /\ [][ChapterNext]_vars

\* ------------------------------------------------------------------- claims
\* rows of memory_links that do not touch the memory, with their counts
LinksApartFrom(d, m) ==
  LET keep == {r \in LinkRows(d) : r.source_id # m /\ r.target_id # m}
  IN [r \in keep |-> CopiesIn(r, d.memory_links)]

\* C1: deleteMemory(m) removes every file-index row of m, every link with m
\* as source or target and every chapter membership of m, and leaves every
\* other memory, the other memories' file rows and links, every chapter row
\* and every wisdom row unchanged.
C1_DeleteMemoryFrame ==
  [][\A m \in MemRefs : (last'.op = "deleteMemory" /\ deleteMemory(m)) =>
        /\ m \notin DOMAIN db'.memories
        /\ \A r \in db'.memory_files : r.memory_id # m
        /\ \A r \in LinkRows(db') : r.source_id # m /\ r.target_id # m
        /\ \A r \in db'.chapter_memories : r.memory_id # m
        /\ db'.memories = Without(db.memories, m)
        /\ db'.memory_files = {r \in db.memory_files : r.memory_id # m}
        /\ db'.memory_links = LinksApartFrom(db, m)
        /\ db'.chapter_memories = {r \in db.chapter_memories : r.memory_id # m}
        /\ db'.chapters = db.chapters
        /\ db'.wisdom = db.wisdom]_vars

\* a memory that owned file rows, links in both directions and a chapter
\* membership was deleted, and other file rows, links and a chapter remain
C1_Witness ==
  /\ last.op = "deleteMemory"
  /\ last.ret
  /\ last.had = {"files", "links_from", "links_to", "chapters"}
  /\ db.memory_files # {}
  /\ LinkCount(db) > 0
  /\ DOMAIN db.chapters # {}

\* C2: after any sequence of store, updateMemory, link, deleteMemory, chapter
\* creation, deleteChapter, synthesize and deleteWisdom no row is orphaned:
\* file rows, link endpoints and chapter memberships name existing memories,
\* chapter memberships name existing chapters, and wisdom-chapter rows name
\* an existing wisdom and an existing chapter.
C2_NoOrphans ==
  /\ \A r \in db.memory_files : r.memory_id \in DOMAIN db.memories
  /\ \A r \in LinkRows(db) : r.source_id \in DOMAIN db.memories
                               /\ r.target_id \in DOMAIN db.memories
  /\ \A r \in db.chapter_memories : r.memory_id \in DOMAIN db.memories
                                      /\ r.chapter_id \in DOMAIN db.chapters
  /\ \A r \in db.wisdom_chapters : r.wisdom_id \in DOMAIN db.wisdom
                                     /\ r.chapter_id \in DOMAIN db.chapters

\* a chapter that had members and a wisdom row pointing at it was deleted
\* while memories, file rows and the wisdom row remain
C2_Witness ==
  /\ last.op = "deleteChapter"
  /\ last.ret
  /\ last.had = {"memories", "wisdom"}
  /\ db.memory_files # {}
  /\ DOMAIN db.wisdom # {}

\* the number of led_to rows in memory_links
LedToCount(d) ==
  BagCardinality([r \in {x \in LinkRows(d) : x.link_type = "led_to"} |->
                    CopiesIn(r, d.memory_links)])

\* C3: store and updateMemory are all-or-nothing: when the call raises
\* (a link names a memory that does not exist, say), no memory row, file row
\* or link it wrote or removed is observable and no counter has changed.
C3_AllOrNothing ==
  [][(last'.op \in {"store", "updateMemory"} /\ last'.threw) => db' = db]_vars

\* C4: memory_links holds at most one row per (source, target, link_type);
\* creating a link that exists adds no row, raises nothing, and getLinksFrom
\* returns the link exactly once.
C4_OneRowPerTriple ==
  /\ [](\A r \in LinkRows(db) : CopiesIn(r, db.memory_links) = 1)
  /\ [][\A s \in MemRefs, t \in MemRefs, ty \in LinkTypes :
          (last'.op = "link" /\ BagIn(LinkRow(s, t, ty), db.memory_links)
             /\ link(s, t, ty)) =>
            /\ ~last'.threw
            /\ db'.memory_links = db.memory_links
            /\ LinkRow(s, t, ty) \in DOMAIN db_getLinksFrom(db', s)
            /\ db_getLinksFrom(db', s)[LinkRow(s, t, ty)] = 1]_vars

\* link was called for a triple that was already stored
C4_Witness ==
  /\ last.op = "link"
  /\ last.had = {"duplicate"}
  /\ LinkCount(db) > 0

\* C5 as stated: no stored link row ever has link_type led_to.
C5_NoLedToRows == \A r \in LinkRows(db) : r.link_type # "led_to"

\* C5, amended: store and updateMemory never write a led_to row; link stores
\* the type it is given, led_to included.
C5_LedToOnlyByLink ==
  [][/\ (last'.op \in {"store", "updateMemory"}) => LedToCount(db') <= LedToCount(db)
     /\ \A s \in MemRefs, t \in MemRefs :
          (last'.op = "link" /\ link(s, t, "led_to") /\ ~last'.threw) =>
            BagIn(LinkRow(s, t, "led_to"), db'.memory_links)]_vars

\* an updateMemory that replaced links went through while a led_to row,
\* written by link, is stored
C5_Witness ==
  /\ last.op = "updateMemory"
  /\ last.ret
  /\ LedToCount(db) > 0
  /\ \E r \in LinkRows(db) : r.link_type = "caused_by"

\* the chain of the finished trace has an entry for the memory with the
\* relationship and the distance
InChain(id, relationship, distance) ==
  \E i \in DOMAIN tr.chain :
    tr.chain[i] = [id |-> id, relationship |-> relationship, distance |-> distance]

\* C6: for a stored caused_by link from X to another memory Y, whatever other
\* links exist, trace(X, causes) lists Y at distance 1 as caused_by and
\* trace(Y, effects) lists X at distance 1 as led_to (default max_depth).
C6_DirectLinkAtDistanceOne ==
  (tr.pc = "done" /\ last.had = {}) =>
    /\ tr.direction = "causes" =>
          \A y \in causeLinks(db, tr.memory_id) \ {tr.memory_id} : InChain(y, "caused_by", 1)
    /\ tr.direction = "effects" =>
          \A x \in effectLinks(db, tr.memory_id) \ {tr.memory_id} : InChain(x, "led_to", 1)

\* C7: on any link graph, cycles included, trace terminates; its chain lists
\* no memory twice and never the origin; with direction both, a memory
\* reached through causes is not listed again through effects.
C7_TraceTerminatesWithoutRepeats ==
  /\ [](\A i, j \in DOMAIN tr.chain :
          /\ tr.chain[i].id # tr.memory_id
          /\ tr.chain[i].id = tr.chain[j].id => i = j)
  /\ (tr.pc = "running") ~> (tr.pc = "done")

\* a trace in both directions finished on a graph where the origin lies on a
\* cycle and one memory is both a cause and an effect of the origin
C7_Witness ==
  /\ tr.pc = "done"
  /\ tr.direction = "both"
  /\ Len(tr.chain) >= 2
  /\ \E y \in causeLinks(db, tr.memory_id) \cap effectLinks(db, tr.memory_id) :
        y # tr.memory_id

\* the hop limit the caller of the trace named, or the default
CallerMaxDepth == IF last.had = {} THEN DefaultMaxDepth ELSE CHOOSE x \in last.had : TRUE

\* C8: every chain entry has a distance in 1..max_depth, max_depth being the
\* hop limit the caller passed (any non-negative number) or 3 when none was.
C8_DistanceWithinMaxDepth ==
  tr.pc = "done" =>
    \A i \in DOMAIN tr.chain :
      1 <= tr.chain[i].distance /\ tr.chain[i].distance <= CallerMaxDepth

TouchPaths == {PathA, PathAB, PathB}

\* the memories that name the file, are within the maximum age and, when
\* failures are excluded, succeeded
Qualifying(filePath) ==
  {m \in DOMAIN db.memories :
     /\ \E r \in db.memory_files : r.memory_id = m /\ Contains(r.file_path, filePath)
     /\ db.memories[m].created_at >= now - config.fileTouchMaxAgeDays * MsPerDay
     /\ config.fileTouchIncludeFailures \/ db.memories[m].outcome_success}

\* notifications returned in the clock minute
EmittedInMinute(minute) ==
  Cardinality({i \in DOMAIN emitted : emitted[i].at \div MsPerMinute = minute})

\* the times of the notifications returned for the file
EmittedFor(filePath) == {emitted[i].at : i \in {j \in DOMAIN emitted : emitted[j].file = filePath}}

\* C9: for a file with at least the minimum number of qualifying memories,
\* while budget is available (triggers enabled): the first checkFileTouch
\* returns a notification, every further call before the cooldown has elapsed
\* returns none, and the first call once it has elapsed returns one again.
C9_CooldownCycle ==
  [][\A f \in TouchPaths :
       (/\ last'.op = "checkFileTouch"
        /\ checkFileTouch(f)
        /\ config.fileTouchEnabled
        /\ Cardinality(Qualifying(f)) >= config.fileTouchMinMemories
        /\ EmittedInMinute(now \div MsPerMinute) < config.rateLimitPerMinute) =>
         IF EmittedFor(f) = {} THEN last'.ret
         ELSE IF now - SetMax(EmittedFor(f)) < config.fileTouchCooldownSeconds * MsPerSecond
           THEN ~last'.ret
         ELSE last'.ret]_vars

C11_SlidingWindow ==
  \A i \in DOMAIN emitted :
    Cardinality({j \in DOMAIN emitted :
                   emitted[i].at <= emitted[j].at
                   /\ emitted[j].at < emitted[i].at + MsPerMinute})
      <= config.rateLimitPerMinute

\* the file is on cooldown and the budget of the minute is used up
TouchBlocked(filePath) ==
  isOnCooldown(filePath, config.fileTouchCooldownSeconds) /\ isRateLimited

\* C12: checkConflict does not depend on the cooldown and rate-limit state of
\* checkFileTouch: the result a call returned is the result of the same call
\* at every later moment until the next call, whatever the cooldowns, the
\* budget and the clock have become, and a checkConflict call changes nothing
\* that a later checkFileTouch reads.
C12_ConflictIndependent ==
  [][last'.op = "checkConflict" =>
       /\ \A r \in last'.had : last'.ret = (conflictWarning(r.file, r.action) # NULL)
       /\ UNCHANGED <<db, config, cooldowns, notificationCount>>]_vars

\* a warning was returned for a file that is on cooldown in a minute whose
\* budget is used up
C12_Witness ==
  /\ last.op = "checkConflict"
  /\ last.ret
  /\ \A r \in last.had : TouchBlocked(r.file)

\* the failed memories on record for a path that contains filePath, among the
\* ConflictFetchLimit newest memories on record for such a path
FailuresNaming(filePath) ==
  LET naming == {m \in DOMAIN db.memories :
                   \E r \in db.memory_files :
                     r.memory_id = m /\ Contains(r.file_path, filePath)}
      newer(m) == {x \in naming :
                     \/ db.memories[x].created_at > db.memories[m].created_at
                     \/ db.memories[x].created_at = db.memories[m].created_at /\ x < m}
  IN {m \in naming : ~db.memories[m].outcome_success
                      /\ Cardinality(newer(m)) < ConflictFetchLimit}

\* the failed memories on record for exactly the path filePath
FailuresRecordedFor(filePath) ==
  {m \in DOMAIN db.memories :
     /\ ~db.memories[m].outcome_success
     /\ \E r \in db.memory_files : r.memory_id = m /\ r.file_path = filePath}

\* one text is part of the other, case-folded
SubstringRelated(goal, action) ==
  \/ Contains(toLowerCase(goal), toLowerCase(action))
  \/ Contains(toLowerCase(action), toLowerCase(goal))

\* more than 30% of the long words of the action occur in the goal
ActionWordsInGoal(goal, action) ==
  LET A == longWords(toLowerCase(action))
      G == longWords(toLowerCase(goal))
  IN A # {} /\ 10 * Cardinality(A \cap G) > 3 * Cardinality(A)

\* the long words the texts share are more than 30% of the larger of the
\* two word sets
SharedWordsOfLarger(goal, action) ==
  LET A == longWords(toLowerCase(action))
      G == longWords(toLowerCase(goal))
  IN /\ A # {} /\ G # {}
     /\ 10 * Cardinality(A \cap G) > 3 * SetSizeMax(A, G)

RecallParamsOf == CHOOSE p \in last.had : TRUE
Returned == [i \in DOMAIN last.ret.memories |-> last.ret.memories[i].id]
ReturnedSet == {Returned[i] : i \in DOMAIN Returned}

NamesFile(m, filePath) ==
  \E r \in db.memory_files : r.memory_id = m /\ Contains(r.file_path, filePath)

C15_OutcomeFilter ==
  (last.op = "recall" /\ last.ret.query_strategy_used \in {"file", "semantic", "query"}) =>
    \A i \in DOMAIN last.ret.memories :
      /\ RecallParamsOf.failures_only => ~last.ret.memories[i].outcome.success
      /\ RecallParamsOf.success_only => last.ret.memories[i].outcome.success

\* C16: every memory returned by the structured strategy satisfies all the
\* supplied filters: agent, task type, success or failure, time range, and
\* every supplied tag.
C16_AllFilters ==
  (last.op = "recall" /\ last.ret.query_strategy_used = "query") =>
    LET p == RecallParamsOf
    IN \A m \in ReturnedSet :
         /\ p.agent_id # NULL => db.memories[m].agent_id = p.agent_id
         /\ p.task_type # None => db.memories[m].intent_type = p.task_type
         /\ p.success_only => db.memories[m].outcome_success
         /\ p.failures_only => ~db.memories[m].outcome_success
         /\ p.since # NULL => db.memories[m].created_at >= p.since
         /\ p.before # NULL => db.memories[m].created_at <= p.before
         /\ p.tags \subseteq db.memories[m].tags

\* every field of the projection lower is a field of the projection higher,
\* with the same value
Nested(lower, higher) ==
  \A f \in DOMAIN lower : f \in DOMAIN higher /\ lower[f] = higher[f]

\* C17: for every memory and depths d1 before d2 in the order summary,
\* outcome, reasoning, full, complete, every field of the projection at d1 is
\* in the projection at d2 with the same value.
C17_DepthsNested ==
  \A m \in DOMAIN db.memories, i, j \in DOMAIN Depths, il \in BOOLEAN :
    i < j => Nested(formatMemory(db, m, Depths[i], il), formatMemory(db, m, Depths[j], il))

\* recall returned, at depth full with links, a memory that has learnings,
\* reasoning, perception and a link
C17_Witness ==
  /\ last.op = "recall"
  /\ \E i \in DOMAIN last.ret.memories :
       /\ {"learnings", "reasoning", "perception", "links"}
            \subseteq DOMAIN last.ret.memories[i]
       /\ "actions" \notin DOMAIN last.ret.memories[i]
       /\ last.ret.memories[i].links.led_to # {}

\* C18: recall reports confidence 0 when it returns no memories; for a
\* non-empty result 1.0 under the direct strategy, 0.95 under the file
\* strategy and one constant, different from both, under the structured one.
C18_Confidence ==
  last.op = "recall" =>
    IF last.ret.memories = <<>> THEN last.ret.confidence = 0
    ELSE /\ last.ret.query_strategy_used = "direct" => last.ret.confidence = Thousand
         /\ last.ret.query_strategy_used = "file" => last.ret.confidence = 950
         /\ last.ret.query_strategy_used = "query" =>
              /\ last.ret.confidence = QueryConfidence
              /\ QueryConfidence \notin {Thousand, 950}

\* a direct lookup of an unknown id reported confidence 0
C18_Witness ==
  /\ last.op = "recall"
  /\ last.ret.query_strategy_used = "direct"
  /\ last.ret.memories = <<>>
  /\ last.ret.confidence = 0

\* the embed call of the last operation asked the backend and failed
EmbedFailed == embedCall.called /\ embedCall.contacted /\ embedCall.result = NoEmbedding

\* C19: once an embed call fails, the provider is disabled and stays disabled:
\* isEnabled is never true again, and every later embed call returns null
\* without contacting the backend.
C19_DisabledForGood ==
  [][/\ EmbedFailed' => ~enabled'
     /\ ~enabled => /\ ~enabled'
                    /\ ~embedCall'.contacted
                    /\ embedCall'.result = NoEmbedding]_vars

\* after a failure, a later embed call returned null without asking the
\* backend
C19_Witness ==
  /\ last.op = "embed"
  /\ ~last.ret
  /\ embedCall.called /\ ~embedCall.contacted
  /\ ~enabled
  /\ \E m \in DOMAIN db.memories : db.memories[m].embedding # NoEmbedding

\* C20: a failure of the embedding provider is not raised to the caller of
\* store, updateMemory or recall: the store call persists the memory, without
\* embedding, and returns; the updateMemory call returns; the recall call
\* returns a result.
C20_FailureNotRaised ==
  (EmbedFailed /\ last.op \in {"store", "updateMemory", "recall"}) =>
    /\ ~last.threw
    /\ last.op = "store" =>
         /\ last.ret
         /\ (ids.mem - 1) \in DOMAIN db.memories
         /\ db.memories[ids.mem - 1].embedding = NoEmbedding
    /\ last.op = "updateMemory" => last.ret
    /\ last.op = "recall" =>
         /\ last.ret.query_strategy_used = "semantic"
         /\ last.ret.total_matches = Len(last.ret.memories)

\* a store call whose embedding request failed stored its memory
C20_Witness ==
  /\ last.op = "store"
  /\ EmbedFailed
  /\ ~last.threw
  /\ ids.mem = 3
  /\ db.memories[2].embedding = NoEmbedding
  /\ db.memories[1].embedding # NoEmbedding

\* C21: once a session has been ended it never changes again: its ended_at
\* and final_outcome keep their values, and no later store or recall call
\* increments its memories_created or queries_made.
C21_EndedSessionFrozen ==
  [][\A s \in DOMAIN db.sessions :
       db.sessions[s].ended_at # NULL =>
         /\ s \in DOMAIN db'.sessions
         /\ db'.sessions[s] = db.sessions[s]]_vars

\* the counters of the agent that the step added to the agent
CountersAdded(a) ==
  [memory_count |-> db'.agents[a].memory_count - db.agents[a].memory_count,
   success_count |-> db'.agents[a].success_count - db.agents[a].success_count,
   failure_count |-> db'.agents[a].failure_count - db.agents[a].failure_count]

\* C22: each successful store adds exactly one to the memory_count of the
\* agent the memory is stored under (the memory's agent_id) and to that
\* agent's success_count or failure_count according to outcome.success, and
\* changes no other agent's counters.
C22_CountsOwner ==
  [][ids'.mem = ids.mem + 1 =>
       LET m == db'.memories[ids.mem]
       IN \A a \in DOMAIN db.agents :
            CountersAdded(a) =
              IF a = m.agent_id
                THEN [memory_count |-> 1,
                      success_count |-> IF m.outcome_success THEN 1 ELSE 0,
                      failure_count |-> IF m.outcome_success THEN 0 ELSE 1]
                ELSE [memory_count |-> 0, success_count |-> 0, failure_count |-> 0]]_vars

\* C23: registering a subagent with no parent_id, or with a parent_id that
\* names no existing agent, fails, creates no agent and no session, and leaves
\* the current agent and session unchanged.
C23_SubagentNeedsParent ==
  [][(/\ last'.op = "register"
      /\ \E r \in last'.had :
           /\ r.type = "subagent"
           /\ r.parent_id = NULL \/ r.parent_id \notin DOMAIN db.agents) =>
       /\ last'.threw
       /\ db'.agents = db.agents
       /\ db'.sessions = db.sessions
       /\ UNCHANGED <<currentAgentId, currentSessionId, identity>>]_vars

\* a subagent registration without parent, and one naming an unknown parent,
\* failed while an agent with a running session was current
C23_Witness ==
  /\ last.op = "register"
  /\ last.threw
  /\ \E r \in last.had : r.type = "subagent" /\ r.parent_id = NULL
  /\ currentAgentId # NULL /\ currentSessionId # NULL
  /\ \E a \in DOMAIN db.agents : db.agents[a].type = "subagent"

\* C24: after any sequence of store and updateMemory calls, each memory's
\* columns agree with its JSON content: intent_goal is intent.goal,
\* intent_type is intent.task_type, outcome_success is outcome.success and
\* outcome_summary is outcome.summary.
C24_ColumnsAgree ==
  \A m \in DOMAIN db.memories :
    /\ db.memories[m].intent_goal = db.memories[m].intent.goal
    /\ db.memories[m].intent_type = db.memories[m].intent.task_type
    /\ db.memories[m].outcome_success = db.memories[m].outcome.success
    /\ db.memories[m].outcome_summary = db.memories[m].outcome.summary

\* an update patched the summary of a memory whose goal an earlier update
\* had patched
C24_Witness ==
  /\ last.op = "updateMemory"
  /\ last.ret
  /\ \E m \in DOMAIN db.memories :
       /\ db.memories[m].outcome.summary = "redone"
       /\ db.memories[m].outcome.success = FALSE
       /\ db.memories[m].intent.goal = Word("e")
       /\ db.memories[m].intent.task_type = "bugfix"

\* the paths the file index holds for the memory
IndexedPaths(m) == {r.file_path : r \in {x \in db.memory_files : x.memory_id = m}}

\* the paths the memory's actions and perception.relevant_files name
NamedPaths(m) ==
  LET row == db.memories[m]
  IN {row.actions[i].file_path : i \in {j \in DOMAIN row.actions : row.actions[j].file_path # <<>>}}
     \cup {row.relevant_files[i] : i \in DOMAIN row.relevant_files}

\* C25: after any sequence of store and updateMemory calls, the file-index
\* paths of a memory are exactly the paths named in its current actions and
\* its current perception.relevant_files: an update that supplies actions or
\* perception replaces the old paths.
C25_FileIndexMirrors ==
  \A m \in DOMAIN db.memories : IndexedPaths(m) = NamedPaths(m)

\* an update of perception took paths out of the index of a memory and put
\* another one in, next to the path its actions name
C25_Witness ==
  /\ last.op = "updateMemory"
  /\ last.ret
  /\ \E m \in DOMAIN db.memories : IndexedPaths(m) = {PathA, PathB}

\* C26: updateMemory never changes a memory's id, created_at, agent_id or
\* session_id and leaves every layer, the tag list and the importance that
\* the patch does not name unchanged; inside a patched object layer the
\* fields the patch does not name keep their old values and the named ones
\* take the patch's, a patched array being replaced whole.
C26_PatchFrame ==
  [][\A m \in DOMAIN db.memories, q \in UpdatePatches :
       (last'.op = "updateMemory" /\ updateMemory(m, q)) =>
         /\ DOMAIN db'.memories = DOMAIN db.memories
         /\ LET old == db.memories[m]
                new == db'.memories[m]
                named(k) == k \in q.given
            IN /\ new.created_at = old.created_at
               /\ new.agent_id = old.agent_id
               /\ new.session_id = old.session_id
               /\ \A k \in DOMAIN old.intent :
                    new.intent[k] = IF named("intent") /\ k \in DOMAIN q.intent
                                      THEN q.intent[k] ELSE old.intent[k]
               /\ \A k \in DOMAIN old.outcome :
                    new.outcome[k] = IF named("outcome") /\ k \in DOMAIN q.outcome
                                       THEN q.outcome[k] ELSE old.outcome[k]
               /\ new.relevant_files =
                    IF named("perception") /\ "relevant_files" \in DOMAIN q.perception
                      THEN q.perception.relevant_files ELSE old.relevant_files
               /\ new.reasoning =
                    IF named("reasoning") /\ "approach_chosen" \in DOMAIN q.reasoning
                      THEN q.reasoning.approach_chosen ELSE old.reasoning
               /\ new.actions = IF named("actions") THEN q.actions ELSE old.actions
               /\ new.tags = IF named("tags") THEN q.tags ELSE old.tags
               /\ new.importance = IF named("importance") THEN q.importance
                                   ELSE old.importance]_vars

\* an update replaced the relevant files of a memory that had two; its
\* learnings, task type and tags are the stored ones, its goal is patched
C26_Witness ==
  /\ last.op = "updateMemory"
  /\ last.ret
  /\ \E m \in DOMAIN db.memories :
       /\ db.memories[m].relevant_files = <<PathB>>
       /\ db.memories[m].intent = [goal |-> Word("e"), task_type |-> "bugfix"]
       /\ db.memories[m].outcome.learnings = "l"
       /\ db.memories[m].tags = {"t1"}
       /\ db.memories[m].importance = 0

\* the targets of the memory's outgoing links of the type
Outgoing(d, m, ty) ==
  {r.target_id : r \in {x \in LinkRows(d) : x.source_id = m /\ x.link_type = ty}}

\* the links that point at the memory
Incoming(d, m) == {r \in LinkRows(d) : r.target_id = m}

\* the targets the patch gives for the link type
GivenTargets(q, ty) ==
  CASE ty = "caused_by" -> {q.caused_by[i] : i \in DOMAIN q.caused_by}
    [] ty = "related_to" -> {q.related_to[i] : i \in DOMAIN q.related_to}
    [] ty = "led_to" -> {q.led_to[i] : i \in DOMAIN q.led_to}
    [] ty = "supersedes" -> {q.supersedes} \ {NULL}
    [] OTHER -> {q.blocked_by} \ {NULL}

Resolved(d, chapter_ids) ==
  IF Len(chapter_ids) > 0
    THEN {c \in DOMAIN d.chapters : \E i \in DOMAIN chapter_ids : chapter_ids[i] = c}
    ELSE DOMAIN d.chapters

\* the chapters a wisdom row refers to
Contributing(d, w) == {r.chapter_id : r \in {x \in d.wisdom_chapters : x.wisdom_id = w}}

C29_AtLeastTwoChapters ==
  [][(last'.op = "synthesize" /\ last'.ret) =>
       Cardinality(Contributing(db', ids.wisdom)) >= 2]_vars

\* the strings of a chapter's tags and topics
StringsOf(row) ==
  {row.tags[i] : i \in DOMAIN row.tags} \cup {row.topics[i] : i \in DOMAIN row.topics}

\* in how many of the chapters the string is a tag or a topic
ChaptersWith(d, chapters, t) == Cardinality({c \in chapters : t \in StringsOf(d.chapters[c])})

\* how often the string occurs in the tags and topics of the chapters
OccurrencesIn(d, chapters, t) ==
  LET count(c) == Occurrences(d.chapters[c].tags, t) + Occurrences(d.chapters[c].topics, t)
      RECURSIVE sum(_)
      sum(S) == IF S = {} THEN 0
                ELSE LET c == CHOOSE x \in S : TRUE IN count(c) + sum(S \ {c})
  IN sum(chapters)

\* C30: a string is one of a new wisdom's patterns exactly when it is a tag
\* or a topic of at least 2 distinct contributing chapters; the patterns are
\* in descending order of their number of occurrences, each once, and the
\* wisdom's tags equal its patterns.
C30_PatternsFromTwoChapters ==
  [][(last'.op = "synthesize" /\ last'.ret) =>
       LET w == db'.wisdom[ids.wisdom]
           chapters == Contributing(db', ids.wisdom)
           strings == UNION {StringsOf(db.chapters[c]) : c \in chapters}
       IN /\ {w.patterns[i] : i \in DOMAIN w.patterns}
               = {t \in strings : ChaptersWith(db, chapters, t) >= 2}
          /\ \A i, j \in DOMAIN w.patterns :
               i < j => /\ w.patterns[i] # w.patterns[j]
                        /\ OccurrencesIn(db, chapters, w.patterns[i])
                             >= OccurrencesIn(db, chapters, w.patterns[j])
          /\ w.tags = w.patterns]_vars

\* C33: deleteChapter(c) removes every membership of c and every wisdom
\* reference to c and deletes no memory and no wisdom row; every other
\* chapter and its memberships are unchanged.
C33_DeleteChapterFrame ==
  [][\A c \in 1..(MaxDelChapters + 1) :
       (last'.op = "deleteChapter" /\ deleteChapter(c)) =>
         /\ \A r \in db'.chapter_memories : r.chapter_id # c
         /\ \A r \in db'.wisdom_chapters : r.chapter_id # c
         /\ db'.memories = db.memories
         /\ db'.wisdom = db.wisdom
         /\ \A o \in DOMAIN db.chapters \ {c} :
              /\ o \in DOMAIN db'.chapters
              /\ db'.chapters[o] = db.chapters[o]
         /\ {r \in db'.chapter_memories : r.chapter_id # c}
              = {r \in db.chapter_memories : r.chapter_id # c}]_vars

\* a chapter with memberships and a wisdom reference was deleted; the other
\* chapter, its memberships, its wisdom reference and the wisdom row remain
C33_Witness ==
  /\ last.op = "deleteChapter"
  /\ last.ret
  /\ last.had = {"memories", "wisdom"}
  /\ db.chapter_memories # {}
  /\ db.wisdom_chapters # {}
  /\ Cardinality(DOMAIN db.chapters) = 1
  /\ DOMAIN db.wisdom # {}

\* C34: deleteWisdom(w) removes the wisdom row w and every chapter reference
\* of w, and deletes no chapter, no chapter membership and no other wisdom.
C34_DeleteWisdomFrame ==
  [][\A w \in 1..(MaxDelWisdom + 1) :
       (last'.op = "deleteWisdom" /\ deleteWisdom(w)) =>
         /\ w \notin DOMAIN db'.wisdom
         /\ \A r \in db'.wisdom_chapters : r.wisdom_id # w
         /\ db'.chapters = db.chapters
         /\ db'.chapter_memories = db.chapter_memories
         /\ db'.memories = db.memories
         /\ db'.wisdom = Without(db.wisdom, w)
         /\ db'.wisdom_chapters = {r \in db.wisdom_chapters : r.wisdom_id # w}]_vars

\* a wisdom was deleted while another wisdom and its references, two
\* chapters and their memberships remain
C34_Witness ==
  /\ last.op = "deleteWisdom"
  /\ last.ret
  /\ Cardinality(DOMAIN db.wisdom) = 1
  /\ \E w \in DOMAIN db.wisdom : Cardinality(Contributing(db, w)) = 2
  /\ Cardinality(DOMAIN db.chapters) = 2
  /\ db.chapter_memories # {}

\* C35: when the identity changes while a store call waits for its embedding,
\* the memory is recorded with the agent and the session that were current
\* when store was called, and the memory counters of that agent and of that
\* session are the ones incremented.
C35_StoreKeepsCaller ==
  [][(last'.op = "store" /\ last'.ret /\ awaiting'.store # awaiting.store) =>
       \A c \in last'.had :
         (c.p.target_agent_id = NULL) =>
           /\ db'.memories[c.memoryId].agent_id = c.calledAs.agentId
           /\ db'.memories[c.memoryId].session_id = c.calledAs.sessionId
           /\ db'.agents[c.calledAs.agentId].memory_count
                = db.agents[c.calledAs.agentId].memory_count + 1
           /\ db'.sessions[c.calledAs.sessionId].memories_created
                = db.sessions[c.calledAs.sessionId].memories_created + 1]_vars

\* the fields that a patch sets in the outcome layer
OutcomeFields(q) == IF "outcome" \in q.given THEN DOMAIN q.outcome ELSE {}

\* C36: when two updateMemory calls on the same memory were suspended at the
\* same time and patch different fields of the outcome layer, then after both
\* have returned the memory has the fields set by each.
C36_BothPatchesApply ==
  \A c1, c2 \in awaiting.finished :
    (/\ c1.memory_id = c2.memory_id
     /\ c1.q \in c2.with
     /\ OutcomeFields(c1.q) \cap OutcomeFields(c2.q) = {}) =>
      LET outcome == db.memories[c1.memory_id].outcome
      IN /\ \A k \in OutcomeFields(c1.q) : outcome[k] = c1.q.outcome[k]
         /\ \A k \in OutcomeFields(c2.q) : outcome[k] = c2.q.outcome[k]

\* the memories within k caused_by links of the origin in the direction
RECURSIVE Within(_, _, _)
Within(origin, direction, k) ==
  IF k = 0 THEN {origin}
  ELSE LET near == Within(origin, direction, k - 1)
       IN near \cup UNION {(IF direction = "causes" THEN causeLinks(db, m)
                            ELSE effectLinks(db, m)) \cap DOMAIN db.memories : m \in near}

\* C37: a finished trace in one direction lists every memory that can be
\* reached from the origin by at most maxDepth caused_by links in that
\* direction (maxDepth being the hop limit in force: 0 is read as not given),
\* and the distance of each entry is the smallest number of links that
\* reaches the memory.
C37_ShortestDistances ==
  (tr.pc = "done" /\ tr.direction \in {"causes", "effects"}) =>
    /\ \A y \in Within(tr.memory_id, tr.direction, tr.maxDepth) \ {tr.memory_id} :
         \E i \in DOMAIN tr.chain : tr.chain[i].id = y
    /\ \A i \in DOMAIN tr.chain :
         /\ tr.chain[i].id \in Within(tr.memory_id, tr.direction, tr.chain[i].distance)
         /\ tr.chain[i].id \notin Within(tr.memory_id, tr.direction, tr.chain[i].distance - 1)

\* C38: each recall call adds exactly one to the access_count of every memory
\* it returns, whichever strategy answers, and leaves the access_count of
\* every other memory as it was.
C38_AccessCountedOnce ==
  [][(last'.op = "recall"
      /\ db'.sessions[1].queries_made = db.sessions[1].queries_made + 1) =>
       LET returned == {last'.ret.memories[i].id : i \in DOMAIN last'.ret.memories}
       IN \A m \in DOMAIN db.memories :
            db'.memories[m].access_count
              = db.memories[m].access_count + (IF m \in returned THEN 1 ELSE 0)]_vars

\* the notifications counted for the clock minute
CountedIn(counts, minute) == IF minute \in DOMAIN counts THEN counts[minute] ELSE 0

\* C39: a checkFileTouch call that returns no notification changes no
\* cooldown and no per-minute counter; a call that returns one arms the
\* cooldown of exactly that file, leaves the cooldowns of the other files as
\* they were and adds exactly one to the counter of the minute.
C39_TouchFrame ==
  [][\A f \in TouchPaths :
       (last'.op = "checkFileTouch" /\ checkFileTouch(f)) =>
         IF last'.ret
           THEN /\ f \in DOMAIN cooldowns'
                /\ cooldowns'[f] = now
                /\ DOMAIN cooldowns' = DOMAIN cooldowns \cup {f}
                /\ \A g \in DOMAIN cooldowns \ {f} : cooldowns'[g] = cooldowns[g]
                /\ CountedIn(notificationCount', now \div MsPerMinute)
                     = CountedIn(notificationCount, now \div MsPerMinute) + 1
           ELSE /\ cooldowns' = cooldowns
                /\ notificationCount' = notificationCount]_vars

\* a call has returned a notification for one file while the cooldown of
\* another file, armed at an earlier time, is still recorded
C39_Witness ==
  /\ last.op = "checkFileTouch"
  /\ last.ret
  /\ \E f \in last.had, g \in DOMAIN cooldowns :
       /\ g # f
       /\ cooldowns[f] = now
       /\ cooldowns[g] < now

\* the memberships persisted for a chapter
Memberships(d, c) == {r \in d.chapter_memories : r.chapter_id = c}

\* C40: the memory_count returned for a chapter created from a memory_ids
\* list is the number of memberships persisted for it, which is the
\* memory_count that listChapters reports.
C40_CountIsMemberships ==
  [][\A l \in ChapterMemoryLists :
       (last'.op = "createChapter" /\ last'.ret /\ createChapter(l, <<>>, <<>>)) =>
         createChapterFromMemories(db, ids.chapter, foundMemories(db, l), <<>>, <<>>,
                                   "manual", now).memory_count
           = db_chapterMemoryCount(db', ids.chapter)]_vars

\* C32: in every chapter the positions of the memberships are 0 .. n-1 for
\* its n memberships, without gap or repeat, and a member with a smaller
\* position was not created later than one with a larger position.
C32_PositionsAreRanks ==
  \A c \in DOMAIN db.chapters :
    LET rows == Memberships(db, c)
    IN /\ {r.position : r \in rows} = 0..(Cardinality(rows) - 1)
       /\ \A r, q \in rows :
            /\ r.position = q.position => r = q
            /\ r.position < q.position =>
                 db.memories[r.memory_id].created_at <= db.memories[q.memory_id].created_at

\* the memories one auto-detect call scans, the keys they fall under and the
\* members of each key
Scanned(p) == {autoDetectQuery(db, p)[i] : i \in DOMAIN autoDetectQuery(db, p)}
KeysOf(m) ==
  IF db.memories[m].tags # {} THEN db.memories[m].tags
  ELSE IF db.memories[m].intent_type # None THEN {taskKey(db.memories[m].intent_type)}
  ELSE {}
BucketOf(p, key) == {m \in Scanned(p) : key \in KeysOf(m)}
ConfiguredMinimum(p) == IF p.min_memories = NULL THEN DefaultMinMemories ELSE p.min_memories
LargeBuckets(p) ==
  {key \in UNION {KeysOf(m) : m \in Scanned(p)} :
     Cardinality(BucketOf(p, key)) >= ConfiguredMinimum(p)}

====
